---- MODULE Spec2Model ----
(***************************************************************************)
(* PlanPilot backend: the in-memory collections (data/inMemoryDB.js) and   *)
(* the Express route handlers for events, tasks, guests, vendors and       *)
(* expenses.  Every handler is a synchronous function body (no await), so  *)
(* a request runs to completion before the next one starts.                *)
(*                                                                         *)
(* A handler is modelled as an operator that maps the current collections  *)
(* and the request (caller, path parameters, validated body) to a result   *)
(* [status, body, <collection after the request>]; the action of a         *)
(* mutating handler installs that result.  GET handlers change nothing and *)
(* are operators only.                                                     *)
(***************************************************************************)
EXTENDS Integers, Sequences, FiniteSets, TLC

VARIABLES users, events, tasks, guests, vendors, expenses, nextId, deleted, served

vars == <<users, events, tasks, guests, vendors, expenses, nextId, deleted, served>>

(***************************************************************************)
(* Bounds of the exploration.                                              *)
(***************************************************************************)
\* Ids are 1..MaxId: '1' is the id of every seed record, uuidv4() hands out
\* 2, 3, ... in turn.
MaxId == 3
\* Callers (req.user.id): 1 is the seed user John Doe, the others signed up.
NumUsers == 3

Users == 1..NumUsers
Ids == 1..MaxId

(***************************************************************************)
(* JavaScript values.                                                      *)
(***************************************************************************)
Undefined == "undefined"
Null == "null"

\* A request body is a function from the property names it holds to their
\* values; reading a property it does not hold gives undefined.
Prop(obj, p) == IF p \in DOMAIN obj THEN obj[p] ELSE Undefined

\* ToBoolean of a string-valued or undefined property (if (updates.name)).
Truthy(v) == v \notin {Undefined, Null, ""}

\* a || b
OrElse(a, b) == IF Truthy(a) THEN a ELSE b

(***************************************************************************)
(* Numbers.  A JavaScript number is an IEEE-754 binary64.  The amounts     *)
(* here are non-negative, below 2^24 and multiples of 2^-57, so a number x *)
(* is held exactly as the integer x * 2^57, written in three base-2^28     *)
(* limbs <<low, middle, high>>; + and - are the exact integer operation    *)
(* followed by rounding (to nearest, ties to even) to 53 significant bits. *)
(***************************************************************************)
MantissaBits == 53
LimbBits == 28
Base == 2 ^ LimbBits

Zero == <<0, 0, 0>>

BigAdd(a, b) ==
    LET s0 == a[1] + b[1]
        s1 == a[2] + b[2] + (s0 \div Base)
        s2 == a[3] + b[3] + (s1 \div Base)
    IN  <<s0 % Base, s1 % Base, s2>>

\* a - b for a >= b
BigSub(a, b) ==
    LET d0 == a[1] - b[1]
        b0 == IF d0 < 0 THEN 1 ELSE 0
        d1 == a[2] - b[2] - b0
        b1 == IF d1 < 0 THEN 1 ELSE 0
    IN  <<d0 + b0 * Base, d1 + b1 * Base, a[3] - b[3] - b1>>

\* Number of significant bits of a limb.
BitLen(n) == CHOOSE k \in 0..LimbBits : n < 2 ^ k /\ (k = 0 \/ n >= 2 ^ (k - 1))

BigBitLen(a) ==
    IF a[3] > 0 THEN 2 * LimbBits + BitLen(a[3])
    ELSE IF a[2] > 0 THEN LimbBits + BitLen(a[2])
    ELSE BitLen(a[1])

\* Round an exact integer to MantissaBits significant bits, ties to even.
RoundToDouble(a) ==
    LET drop == BigBitLen(a) - MantissaBits
    IN  IF drop <= 0 THEN a
        ELSE LET unit == 2 ^ drop
                 rest == a[1] % unit
                 kept == IF drop < LimbBits THEN (a[1] \div unit) % 2 ELSE a[2] % 2
                 down == <<a[1] - rest, a[2], a[3]>>
                 up   == BigAdd(down, <<unit % Base, unit \div Base, 0>>)
             IN  IF 2 * rest > unit \/ (2 * rest = unit /\ kept = 1)
                 THEN up ELSE down

\* sum + expense.amount
NumAdd(a, b) == RoundToDouble(BigAdd(a, b))

\* totalBudget - paidAmount
NumSub(a, b) == RoundToDouble(BigSub(a, b))

\* parseFloat(amount) of the decimal literals the requests carry.
ParseFloat(lit) ==
    CASE lit = "0"    -> Zero
      [] lit = "0.05" -> <<161061274, 26843545, 0>>
      [] lit = "0.1"  -> <<53687092, 53687091, 0>>
      [] lit = "0.2"  -> <<107374184, 107374182, 0>>
      [] lit = "2500" -> <<0, 0, 5000>>

(***************************************************************************)
(* Strings the validators rewrite and the constructors convert.            *)
(***************************************************************************)
\* new Date(lit), held as its toISOString(): a date-only literal is UTC
\* midnight of that day.
NewDate(lit) ==
    CASE lit = "2024-07-15"               -> "2024-07-15T00:00:00.000Z"
      [] lit = "2024-03-01"               -> "2024-03-01T00:00:00.000Z"
      [] lit = "2024-08-01"               -> "2024-08-01T00:00:00.000Z"
      [] lit = "2024-08-01T00:00:00.000Z" -> "2024-08-01T00:00:00.000Z"
      [] lit = "2024-08-01T12:00:00.000Z" -> "2024-08-01T12:00:00.000Z"

\* body('email').normalizeEmail(): lower-cases the address.
NormalizeEmail(lit) ==
    CASE lit = "Jane@Example.com"          -> "jane@example.com"
      [] lit = "jane@example.com"          -> "jane@example.com"
      [] lit = "bob@example.com"           -> "bob@example.com"
      [] lit = "Sarah@ElegantCatering.com" -> "sarah@elegantcatering.com"
      [] lit = "sarah@elegantcatering.com" -> "sarah@elegantcatering.com"
      [] lit = "dj@example.com"            -> "dj@example.com"

\* Boolean(isPaid) of the literals isBoolean() lets through: the JSON
\* booleans and the strings "true" and "false" (a non-empty string is true).
ToBoolean(lit) ==
    CASE lit = "true"      -> TRUE
      [] lit = "false"     -> FALSE
      [] lit = "'true'"    -> TRUE
      [] lit = "'false'"   -> TRUE
      [] lit = Undefined   -> FALSE

(***************************************************************************)
(* Array helpers.                                                          *)
(***************************************************************************)
\* arr.findIndex(r => r.id === id): the first such index, 0 for -1.
FindIndex(arr, id) ==
    IF \E i \in DOMAIN arr : arr[i].id = id
    THEN CHOOSE i \in DOMAIN arr :
             arr[i].id = id /\ \A j \in 1..(i - 1) : arr[j].id # id
    ELSE 0

\* arr.findIndex(r => r.id === id): the event of the request is not compared.
FindChildIndex_IdOnly(arr, id, eventId) ==
    IF \E i \in DOMAIN arr : arr[i].id = id
    THEN CHOOSE i \in DOMAIN arr : arr[i].id = id /\ \A j \in 1..(i - 1) : arr[j].id # id
    ELSE 0

\* arr.findIndex(r => r.id === id && r.eventId === eventId)
FindChildIndex(arr, id, eventId) ==
    IF \E i \in DOMAIN arr : arr[i].id = id /\ arr[i].eventId = eventId
    THEN CHOOSE i \in DOMAIN arr :
             /\ arr[i].id = id /\ arr[i].eventId = eventId
             /\ \A j \in 1..(i - 1) : ~(arr[j].id = id /\ arr[j].eventId = eventId)
    ELSE 0

\* Splice with a delete count of 0: arr.splice(i, 0) removes nothing.
Splice_Keep(arr, i) == arr

\* arr.splice(i, 1) for an index i of arr
Splice(arr, i) == SubSeq(arr, 1, i - 1) \o SubSeq(arr, i + 1, Len(arr))

\* arr.filter(r => r.eventId === eventId)
OfEvent(arr, eventId) == SelectSeq(arr, LAMBDA r : r.eventId = eventId)

\* arr.includes(x)
Includes(arr, x) == \E i \in DOMAIN arr : arr[i] = x

\* const { createdAt: __, ...response } = record: eventId stays in the response.
Strip_CreatedAtOnly(rec) == [p \in DOMAIN rec \ {"createdAt"} |-> rec[p]]

\* const { eventId: _, createdAt: __, ...response } = record
Strip(rec) == [p \in DOMAIN rec \ {"eventId", "createdAt"} |-> rec[p]]

\* new Date() at a request: requests are numbered by the ids handed out.
Now == nextId - 1

(***************************************************************************)
(* data/inMemoryDB.js: the collections as the module builds them.          *)
(***************************************************************************)
SeedUsers ==
    << [id |-> 1, name |-> "John Doe", email |-> "john@example.com",
        password |-> "$2a$10$hashedpassword123", createdAt |-> 0] >>

SeedEvents ==
    << [id |-> 1, name |-> "Summer Wedding", type |-> "Wedding",
        date |-> NewDate("2024-07-15"),
        description |-> "Beautiful summer wedding celebration",
        hostId |-> 1, collaborators |-> <<>>, vendors |-> <<>>, createdAt |-> 0] >>

SeedTasks ==
    << [id |-> 1, name |-> "Book Venue",
        description |-> "Find and book the perfect wedding venue",
        assigneeId |-> "1", dueDate |-> NewDate("2024-03-01"),
        status |-> "To-Do", eventId |-> 1, createdAt |-> 0] >>

SeedGuests ==
    << [id |-> 1, name |-> "Jane Smith", email |-> "jane@example.com",
        plusOne |-> "1", notes |-> "Vegetarian meal preference",
        rsvpStatus |-> "Pending", eventId |-> 1, createdAt |-> 0] >>

SeedVendors ==
    << [id |-> 1, companyName |-> "Elegant Catering", contactName |-> "Sarah Johnson",
        email |-> "sarah@elegantcatering.com", serviceProvided |-> "Catering",
        eventId |-> 1, createdAt |-> 0] >>

SeedExpenses ==
    << [id |-> 1, name |-> "Venue Deposit", category |-> "Venue",
        amount |-> ParseFloat("2500"), isPaid |-> TRUE, eventId |-> 1, createdAt |-> 0] >>

Kinds == {"events", "tasks", "guests", "vendors", "expenses"}

Init ==
    /\ events = SeedEvents
    /\ tasks = SeedTasks
    /\ guests = SeedGuests
    /\ vendors = SeedVendors
    /\ expenses = SeedExpenses
    /\ nextId = 2
    /\ deleted = [k \in Kinds |-> {}]
    /\ served = <<>>
    /\ users = SeedUsers

(***************************************************************************)
(* The access checks of the handlers.                                      *)
(***************************************************************************)
NotFound(what) == [status |-> 404, body |-> [error |-> what]]
Forbidden(what) == [status |-> 403, body |-> [error |-> what]]
BadRequest(what) == [status |-> 400, body |-> [error |-> what]]

\* events.find(e => e.id === eventId): the event, for an id that has one.
FindEvent(eventId) == events[FindIndex(events, eventId)]

EventExists(eventId) == FindIndex(events, eventId) # 0

\* !(event.hostId !== userId && !event.collaborators.includes(userId))
HasAccess(event, userId) ==
    event.hostId = userId \/ Includes(event.collaborators, userId)

\* !(event.hostId !== userId)
IsHost(event, userId) == event.hostId = userId

(***************************************************************************)
(* routes/events.js                                                        *)
(***************************************************************************)
\* POST /api/events that lists the creator among the collaborators as well.
PostEvent_HostListed(userId, body) ==
    LET newEvent == [id |-> nextId,
                     name |-> body.name,
                     type |-> body.type,
                     date |-> NewDate(body.date),
                     description |-> OrElse(Prop(body, "description"), ""),
                     hostId |-> userId,
                     collaborators |-> <<userId>>,
                     vendors |-> <<>>,
                     createdAt |-> Now]
    IN  [status |-> 201, body |-> newEvent, events |-> Append(events, newEvent)]

\* POST /api/events that numbers the new event by the length of the collection.
PostEvent_CountId(userId, body) ==
    LET newEvent == [id |-> Len(events) + 1,
                     name |-> body.name,
                     type |-> body.type,
                     date |-> NewDate(body.date),
                     description |-> OrElse(Prop(body, "description"), ""),
                     hostId |-> userId,
                     collaborators |-> <<>>,
                     vendors |-> <<>>,
                     createdAt |-> Now]
    IN  [status |-> 201, body |-> newEvent, events |-> Append(events, newEvent)]

\* POST /api/events
PostEvent(userId, body) ==
    LET newEvent == [id |-> nextId,
                     name |-> body.name,
                     type |-> body.type,
                     date |-> NewDate(body.date),
                     description |-> OrElse(Prop(body, "description"), ""),
                     hostId |-> userId,
                     collaborators |-> <<>>,
                     vendors |-> <<>>,
                     createdAt |-> Now]
    IN  [status |-> 201, body |-> newEvent, events |-> Append(events, newEvent)]

\* Helper function to calculate event progress: Math.floor(Math.random() * 100),
\* random being the value Math.random() returns, in hundredths.
calculateEventProgress(eventId, random) == random

\* GET /api/events without the filter on host and collaborators.
GetEvents_All(userId, random) ==
    [status |-> 200,
     body |-> [i \in DOMAIN events |->
                  [id |-> events[i].id,
                   name |-> events[i].name,
                   type |-> events[i].type,
                   date |-> events[i].date,
                   progress |-> calculateEventProgress(events[i].id, random[i])]]]

\* GET /api/events; random[i] is the draw for the i-th event of the list.
GetEvents(userId, random) ==
    LET userEvents == SelectSeq(events, LAMBDA event : HasAccess(event, userId))
    IN  [status |-> 200,
         body |-> [i \in DOMAIN userEvents |->
                      [id |-> userEvents[i].id,
                       name |-> userEvents[i].name,
                       type |-> userEvents[i].type,
                       date |-> userEvents[i].date,
                       progress |-> calculateEventProgress(userEvents[i].id, random[i])]]]

\* GET /api/events/:eventId
GetEvent(userId, eventId) ==
    IF ~EventExists(eventId) THEN NotFound("Event not found")
    ELSE IF ~HasAccess(FindEvent(eventId), userId)
    THEN Forbidden("Access denied to this event")
    ELSE [status |-> 200, body |-> FindEvent(eventId)]

\* The assignments of a PUT that copies every property of the body that
\* the event has: Object.assign(event, updates).
UpdateEventFields_Assign(event, updates) ==
    [p \in DOMAIN event |-> IF p \in DOMAIN updates THEN updates[p] ELSE event[p]]

\* The assignments of PUT /api/events/:eventId to the event it found.
UpdateEventFields(event, updates) ==
    [event EXCEPT
        !.name = IF Truthy(Prop(updates, "name")) THEN updates.name ELSE @,
        !.type = IF Truthy(Prop(updates, "type")) THEN updates.type ELSE @,
        !.date = IF Truthy(Prop(updates, "date")) THEN NewDate(updates.date) ELSE @,
        !.description = IF Prop(updates, "description") # Undefined
                        THEN updates.description ELSE @]

\* PUT /api/events/:eventId
PutEvent(userId, eventId, updates) ==
    LET eventIndex == FindIndex(events, eventId)
    IN  IF eventIndex = 0
        THEN NotFound("Event not found") @@ [events |-> events]
        ELSE IF ~IsHost(events[eventIndex], userId)
        THEN Forbidden("Only the event host can update this event") @@ [events |-> events]
        ELSE LET event == UpdateEventFields(events[eventIndex], updates)
             IN  [status |-> 200, body |-> event,
                  events |-> [events EXCEPT ![eventIndex] = event]]

\* DELETE /api/events/:eventId with the access check of the read routes in
\* the place of the host check left out: any caller deletes.
DeleteEvent_NoHostCheck(userId, eventId) ==
    LET eventIndex == FindIndex(events, eventId)
    IN  IF eventIndex = 0
        THEN NotFound("Event not found") @@ [events |-> events]
        ELSE [status |-> 204, body |-> <<>>, events |-> Splice(events, eventIndex)]

\* DELETE /api/events/:eventId
DeleteEvent(userId, eventId) ==
    LET eventIndex == FindIndex(events, eventId)
    IN  IF eventIndex = 0
        THEN NotFound("Event not found") @@ [events |-> events]
        ELSE IF ~IsHost(events[eventIndex], userId)
        THEN Forbidden("Only the event host can delete this event") @@ [events |-> events]
        ELSE [status |-> 204, body |-> <<>>, events |-> Splice(events, eventIndex)]

(***************************************************************************)
(* The requests the exploration sends to the event routes.                 *)
(***************************************************************************)
EventBodies ==
    { [name |-> "Gala", type |-> "Party", date |-> "2024-08-01"] }

EventUpdates ==
    { [name |-> "Launch", description |-> "", hostId |-> 2, collaborators |-> <<2>>] }

\* What a 204 of a delete records: the id is gone from its collection.
MarkDeleted(kind, id, status) ==
    IF status = 204 THEN [deleted EXCEPT ![kind] = @ \cup {id}] ELSE deleted

PostEventReq ==
    \E userId \in Users, body \in EventBodies :
        /\ nextId <= MaxId
        /\ events' = PostEvent(userId, body).events
        /\ nextId' = nextId + 1
        /\ UNCHANGED <<users, tasks, guests, vendors, expenses, deleted, served>>

PutEventReq ==
    \E userId \in Users, eventId \in Ids, updates \in EventUpdates :
        /\ events' = PutEvent(userId, eventId, updates).events
        /\ UNCHANGED <<users, tasks, guests, vendors, expenses, nextId, deleted, served>>

\* A delete of an event that also removes the records stored under it.
DeleteEventReq_Cascade ==
    \E userId \in Users, eventId \in Ids :
        LET res == DeleteEvent(userId, eventId)
            Keep(arr) == IF res.status = 204
                         THEN SelectSeq(arr, LAMBDA r : r.eventId # eventId) ELSE arr
        IN  /\ events' = res.events
            /\ deleted' = MarkDeleted("events", eventId, res.status)
            /\ tasks' = Keep(tasks) /\ guests' = Keep(guests)
            /\ vendors' = Keep(vendors) /\ expenses' = Keep(expenses)
            /\ UNCHANGED <<users, nextId, served>>

DeleteEventReq ==
    \E userId \in Users, eventId \in Ids :
        LET res == DeleteEvent(userId, eventId)
        IN  /\ events' = res.events
            /\ deleted' = MarkDeleted("events", eventId, res.status)
            /\ UNCHANGED <<users, tasks, guests, vendors, expenses, nextId, served>>

(***************************************************************************)
(* The first two steps of every event-scoped handler: "Verify event exists *)
(* and user has access".  The result when the handler stops there, and     *)
(* status 0 when it goes on.                                               *)
(***************************************************************************)
\* The verification without the access check: only the event lookup.
VerifyEvent_ExistsOnly(userId, eventId) ==
    IF ~EventExists(eventId) THEN NotFound("Event not found")
    ELSE [status |-> 0, body |-> <<>>]

\* The verification without the event lookup: a missing event stops nobody.
VerifyEvent_AccessOnly(userId, eventId) ==
    IF EventExists(eventId) /\ ~HasAccess(FindEvent(eventId), userId)
    THEN Forbidden("Access denied to this event")
    ELSE [status |-> 0, body |-> <<>>]

\* if (!event) 404; if (hostId !== userId && !collaborators.includes(userId)) 403
VerifyEvent(userId, eventId) ==
    IF ~EventExists(eventId) THEN NotFound("Event not found")
    ELSE IF ~HasAccess(FindEvent(eventId), userId)
    THEN Forbidden("Access denied to this event")
    ELSE [status |-> 0, body |-> <<>>]

Verified(userId, eventId) == VerifyEvent(userId, eventId).status = 0

(***************************************************************************)
(* routes/tasks.js                                                         *)
(***************************************************************************)
\* res.status(400).json({ errors: errors.array() })
ValidationFailed == [status |-> 400, body |-> [errors |-> "validation"]]

TaskStatuses == {"To-Do", "In Progress", "Completed", "On Hold"}

\* The validators of POST /:eventId/tasks on name and status.
ValidTaskBody(body) ==
    /\ Prop(body, "name") \notin {Undefined, ""}
    /\ Prop(body, "status") = Undefined \/ body.status \in TaskStatuses

\* The validators of PUT /:eventId/tasks/:taskId without isIn on status.
ValidTaskUpdates_AnyStatus(updates) ==
    Prop(updates, "name") # ""

\* The validators of PUT /:eventId/tasks/:taskId on name and status.
ValidTaskUpdates(updates) ==
    /\ Prop(updates, "name") # ""
    /\ Prop(updates, "status") = Undefined \/ updates.status \in TaskStatuses

\* POST /api/events/:eventId/tasks
PostTask(userId, eventId, body) ==
    IF ~ValidTaskBody(body) THEN ValidationFailed @@ [tasks |-> tasks]
    ELSE IF ~Verified(userId, eventId)
    THEN VerifyEvent(userId, eventId) @@ [tasks |-> tasks]
    ELSE LET newTask == [id |-> nextId,
                         name |-> body.name,
                         description |-> OrElse(Prop(body, "description"), ""),
                         assigneeId |-> OrElse(Prop(body, "assigneeId"), Null),
                         dueDate |-> IF Truthy(Prop(body, "dueDate"))
                                     THEN NewDate(body.dueDate) ELSE Null,
                         status |-> OrElse(Prop(body, "status"), "To-Do"),
                         eventId |-> eventId,
                         createdAt |-> Now]
         IN  [status |-> 201, body |-> newTask, tasks |-> Append(tasks, newTask)]

\* GET /api/events/:eventId/tasks
GetTasks(userId, eventId) ==
    IF ~Verified(userId, eventId) THEN VerifyEvent(userId, eventId)
    ELSE LET eventTasks == OfEvent(tasks, eventId)
         IN  [status |-> 200,
              body |-> [i \in DOMAIN eventTasks |->
                           [id |-> eventTasks[i].id,
                            name |-> eventTasks[i].name,
                            assigneeId |-> eventTasks[i].assigneeId,
                            status |-> eventTasks[i].status,
                            dueDate |-> eventTasks[i].dueDate]]]

\* GET /api/events/:eventId/tasks/:taskId
GetTask(userId, eventId, taskId) ==
    IF ~Verified(userId, eventId) THEN VerifyEvent(userId, eventId)
    ELSE IF FindChildIndex(tasks, taskId, eventId) = 0 THEN NotFound("Task not found")
    ELSE [status |-> 200, body |-> tasks[FindChildIndex(tasks, taskId, eventId)]]

\* A PUT that replaces the task by the body: a property the body does not
\* supply falls back to the default of the create.
UpdateTaskFields_Replace(task, updates) ==
    [task EXCEPT
        !.name = IF Truthy(Prop(updates, "name")) THEN updates.name ELSE @,
        !.description = OrElse(Prop(updates, "description"), ""),
        !.assigneeId = OrElse(Prop(updates, "assigneeId"), Null),
        !.dueDate = IF Truthy(Prop(updates, "dueDate"))
                    THEN NewDate(updates.dueDate) ELSE Null,
        !.status = OrElse(Prop(updates, "status"), "To-Do")]

\* The assignments of PUT /api/events/:eventId/tasks/:taskId to the task.
UpdateTaskFields(task, updates) ==
    [task EXCEPT
        !.name = IF Truthy(Prop(updates, "name")) THEN updates.name ELSE @,
        !.description = IF Prop(updates, "description") # Undefined
                        THEN updates.description ELSE @,
        !.assigneeId = IF Prop(updates, "assigneeId") # Undefined
                       THEN updates.assigneeId ELSE @,
        !.dueDate = IF Prop(updates, "dueDate") # Undefined
                    THEN (IF Truthy(updates.dueDate) THEN NewDate(updates.dueDate) ELSE Null)
                    ELSE @,
        !.status = IF Truthy(Prop(updates, "status")) THEN updates.status ELSE @]

\* PUT /api/events/:eventId/tasks/:taskId
PutTask(userId, eventId, taskId, updates) ==
    LET taskIndex == FindChildIndex(tasks, taskId, eventId)
    IN  IF ~ValidTaskUpdates(updates) THEN ValidationFailed @@ [tasks |-> tasks]
        ELSE IF ~Verified(userId, eventId)
        THEN VerifyEvent(userId, eventId) @@ [tasks |-> tasks]
        ELSE IF taskIndex = 0 THEN NotFound("Task not found") @@ [tasks |-> tasks]
        ELSE LET task == UpdateTaskFields(tasks[taskIndex], updates)
             IN  [status |-> 200, body |-> task,
                  tasks |-> [tasks EXCEPT ![taskIndex] = task]]

\* DELETE /api/events/:eventId/tasks/:taskId
DeleteTask(userId, eventId, taskId) ==
    LET taskIndex == FindChildIndex(tasks, taskId, eventId)
    IN  IF ~Verified(userId, eventId)
        THEN VerifyEvent(userId, eventId) @@ [tasks |-> tasks]
        ELSE IF taskIndex = 0 THEN NotFound("Task not found") @@ [tasks |-> tasks]
        ELSE [status |-> 204, body |-> <<>>, tasks |-> Splice(tasks, taskIndex)]

(***************************************************************************)
(* routes/guests.js                                                        *)
(***************************************************************************)
RsvpStatuses == {"Pending", "Confirmed", "Declined", "Maybe"}

\* isInt({ min: 0 }) of the number literal the request carries
IsIntMin0(lit) == lit \in {"0", "1", "2", "3"}

\* The validators of POST /:eventId/guests on name and plusOne.
ValidGuestBody(body) ==
    /\ Prop(body, "name") \notin {Undefined, ""}
    /\ Prop(body, "plusOne") = Undefined \/ IsIntMin0(body.plusOne)

\* The validators of PUT /:eventId/guests/:guestId on rsvpStatus and plusOne.
ValidGuestUpdates(updates) ==
    /\ Prop(updates, "rsvpStatus") \in RsvpStatuses
    /\ Prop(updates, "plusOne") = Undefined \/ IsIntMin0(updates.plusOne)

\* plusOne || 0 of the number literal the request carries
PlusOneOrZero(lit) == IF lit \in {Undefined, "0"} THEN "0" ELSE lit

\* guests.find(g => g.email === email): the event is not compared.
ExistingGuest_AnyEvent(eventId, email) ==
    \E i \in DOMAIN guests : guests[i].email = email

\* guests.find(g => g.eventId !== eventId && g.email === email)
ExistingGuest_OtherEvents(eventId, email) ==
    \E i \in DOMAIN guests : guests[i].eventId # eventId /\ guests[i].email = email

\* guests.find(g => g.eventId === eventId && g.email === email)
ExistingGuest(eventId, email) ==
    \E i \in DOMAIN guests : guests[i].eventId = eventId /\ guests[i].email = email

PostGuest_PushBeforeCheck(userId, eventId, body) ==
    LET email == NormalizeEmail(body.email)
        newGuest == [id |-> nextId,
                     name |-> body.name,
                     email |-> email,
                     plusOne |-> PlusOneOrZero(Prop(body, "plusOne")),
                     notes |-> OrElse(Prop(body, "notes"), ""),
                     rsvpStatus |-> "Pending",
                     eventId |-> eventId,
                     createdAt |-> Now]
    IN  IF ~ValidGuestBody(body) THEN ValidationFailed @@ [guests |-> guests]
        ELSE IF ~Verified(userId, eventId)
        THEN VerifyEvent(userId, eventId) @@ [guests |-> guests]
        ELSE IF ExistingGuest(eventId, email)
        THEN BadRequest("Guest with this email already exists for this event")
                 @@ [guests |-> Append(guests, newGuest)]
        ELSE [status |-> 201, body |-> Strip(newGuest), guests |-> Append(guests, newGuest)]

\* POST /api/events/:eventId/guests
PostGuest(userId, eventId, body) ==
    LET email == NormalizeEmail(body.email)
        newGuest == [id |-> nextId,
                     name |-> body.name,
                     email |-> email,
                     plusOne |-> PlusOneOrZero(Prop(body, "plusOne")),
                     notes |-> OrElse(Prop(body, "notes"), ""),
                     rsvpStatus |-> "Pending",
                     eventId |-> eventId,
                     createdAt |-> Now]
    IN  IF ~ValidGuestBody(body) THEN ValidationFailed @@ [guests |-> guests]
        ELSE IF ~Verified(userId, eventId)
        THEN VerifyEvent(userId, eventId) @@ [guests |-> guests]
        ELSE IF ExistingGuest(eventId, email)
        THEN BadRequest("Guest with this email already exists for this event")
                 @@ [guests |-> guests]
        ELSE [status |-> 201, body |-> Strip(newGuest), guests |-> Append(guests, newGuest)]

\* GET /api/events/:eventId/guests
GetGuests(userId, eventId) ==
    IF ~Verified(userId, eventId) THEN VerifyEvent(userId, eventId)
    ELSE LET eventGuests == OfEvent(guests, eventId)
         IN  [status |-> 200,
              body |-> [i \in DOMAIN eventGuests |->
                           [id |-> eventGuests[i].id,
                            name |-> eventGuests[i].name,
                            email |-> eventGuests[i].email,
                            rsvpStatus |-> eventGuests[i].rsvpStatus,
                            plusOne |-> eventGuests[i].plusOne]]]

\* GET of a guest that answers the stored record as it is: res.json(guest).
GetGuest_Raw(userId, eventId, guestId) ==
    IF ~Verified(userId, eventId) THEN VerifyEvent(userId, eventId)
    ELSE IF FindChildIndex(guests, guestId, eventId) = 0 THEN NotFound("Guest not found")
    ELSE [status |-> 200, body |-> guests[FindChildIndex(guests, guestId, eventId)]]

\* GET /api/events/:eventId/guests/:guestId
GetGuest(userId, eventId, guestId) ==
    IF ~Verified(userId, eventId) THEN VerifyEvent(userId, eventId)
    ELSE IF FindChildIndex(guests, guestId, eventId) = 0 THEN NotFound("Guest not found")
    ELSE [status |-> 200, body |-> Strip(guests[FindChildIndex(guests, guestId, eventId)])]

\* The assignments of a guest PUT that stores the rsvpStatus alone.
UpdateGuestFields_RsvpOnly(guest, updates) ==
    [guest EXCEPT
        !.rsvpStatus = IF Truthy(Prop(updates, "rsvpStatus")) THEN updates.rsvpStatus ELSE @]

\* The assignments of PUT /api/events/:eventId/guests/:guestId to the guest.
UpdateGuestFields(guest, updates) ==
    [guest EXCEPT
        !.rsvpStatus = IF Truthy(Prop(updates, "rsvpStatus")) THEN updates.rsvpStatus ELSE @,
        !.plusOne = IF Prop(updates, "plusOne") # Undefined THEN updates.plusOne ELSE @,
        !.notes = IF Prop(updates, "notes") # Undefined THEN updates.notes ELSE @]

\* PUT /api/events/:eventId/guests/:guestId
PutGuest(userId, eventId, guestId, updates) ==
    LET guestIndex == FindChildIndex(guests, guestId, eventId)
    IN  IF ~ValidGuestUpdates(updates) THEN ValidationFailed @@ [guests |-> guests]
        ELSE IF ~Verified(userId, eventId)
        THEN VerifyEvent(userId, eventId) @@ [guests |-> guests]
        ELSE IF guestIndex = 0 THEN NotFound("Guest not found") @@ [guests |-> guests]
        ELSE LET guest == UpdateGuestFields(guests[guestIndex], updates)
             IN  [status |-> 200, body |-> Strip(guest),
                  guests |-> [guests EXCEPT ![guestIndex] = guest]]

\* DELETE /api/events/:eventId/guests/:guestId
DeleteGuest(userId, eventId, guestId) ==
    LET guestIndex == FindChildIndex(guests, guestId, eventId)
    IN  IF ~Verified(userId, eventId)
        THEN VerifyEvent(userId, eventId) @@ [guests |-> guests]
        ELSE IF guestIndex = 0 THEN NotFound("Guest not found") @@ [guests |-> guests]
        ELSE [status |-> 204, body |-> <<>>, guests |-> Splice(guests, guestIndex)]

(***************************************************************************)
(* routes/vendors.js                                                       *)
(***************************************************************************)
\* vendors.find(v => v.eventId === eventId && v.email === email)
ExistingVendor(eventId, email) ==
    \E i \in DOMAIN vendors : vendors[i].eventId = eventId /\ vendors[i].email = email

\* POST /api/events/:eventId/vendors
PostVendor(userId, eventId, body) ==
    LET email == NormalizeEmail(body.email)
        newVendor == [id |-> nextId,
                      companyName |-> body.companyName,
                      contactName |-> body.contactName,
                      email |-> email,
                      serviceProvided |-> body.serviceProvided,
                      eventId |-> eventId,
                      createdAt |-> Now]
    IN  IF ~Verified(userId, eventId)
        THEN VerifyEvent(userId, eventId) @@ [vendors |-> vendors]
        ELSE IF ExistingVendor(eventId, email)
        THEN BadRequest("Vendor with this email already exists for this event")
                 @@ [vendors |-> vendors]
        ELSE [status |-> 201, body |-> Strip(newVendor),
              vendors |-> Append(vendors, newVendor)]

\* GET /api/events/:eventId/vendors
GetVendors(userId, eventId) ==
    IF ~Verified(userId, eventId) THEN VerifyEvent(userId, eventId)
    ELSE LET eventVendors == OfEvent(vendors, eventId)
         IN  [status |-> 200,
              body |-> [i \in DOMAIN eventVendors |->
                           [id |-> eventVendors[i].id,
                            companyName |-> eventVendors[i].companyName,
                            contactName |-> eventVendors[i].contactName,
                            email |-> eventVendors[i].email,
                            serviceProvided |-> eventVendors[i].serviceProvided]]]

\* GET /api/events/:eventId/vendors/:vendorId
GetVendor(userId, eventId, vendorId) ==
    IF ~Verified(userId, eventId) THEN VerifyEvent(userId, eventId)
    ELSE IF FindChildIndex(vendors, vendorId, eventId) = 0
    THEN NotFound("Vendor not found")
    ELSE [status |-> 200,
          body |-> Strip(vendors[FindChildIndex(vendors, vendorId, eventId)])]

\* The assignments of PUT /api/events/:eventId/vendors/:vendorId to the vendor.
UpdateVendorFields(vendor, updates) ==
    [vendor EXCEPT
        !.companyName = IF Truthy(Prop(updates, "companyName"))
                        THEN updates.companyName ELSE @,
        !.contactName = IF Truthy(Prop(updates, "contactName"))
                        THEN updates.contactName ELSE @,
        !.email = IF Truthy(Prop(updates, "email"))
                  THEN NormalizeEmail(updates.email) ELSE @,
        !.serviceProvided = IF Truthy(Prop(updates, "serviceProvided"))
                            THEN updates.serviceProvided ELSE @]

\* PUT /api/events/:eventId/vendors/:vendorId
PutVendor(userId, eventId, vendorId, updates) ==
    LET vendorIndex == FindChildIndex(vendors, vendorId, eventId)
    IN  IF ~Verified(userId, eventId)
        THEN VerifyEvent(userId, eventId) @@ [vendors |-> vendors]
        ELSE IF vendorIndex = 0 THEN NotFound("Vendor not found") @@ [vendors |-> vendors]
        ELSE LET vendor == UpdateVendorFields(vendors[vendorIndex], updates)
             IN  [status |-> 200, body |-> Strip(vendor),
                  vendors |-> [vendors EXCEPT ![vendorIndex] = vendor]]

\* DELETE of a vendor that looks the vendor up before it verifies the event.
DeleteVendor_LookupFirst(userId, eventId, vendorId) ==
    LET vendorIndex == FindChildIndex(vendors, vendorId, eventId)
    IN  IF vendorIndex = 0
        THEN NotFound("Vendor not found") @@ [vendors |-> vendors]
        ELSE IF ~Verified(userId, eventId)
        THEN VerifyEvent(userId, eventId) @@ [vendors |-> vendors]
        ELSE [status |-> 204, body |-> <<>>, vendors |-> Splice(vendors, vendorIndex)]

\* DELETE /api/events/:eventId/vendors/:vendorId
DeleteVendor(userId, eventId, vendorId) ==
    LET vendorIndex == FindChildIndex(vendors, vendorId, eventId)
    IN  IF ~Verified(userId, eventId)
        THEN VerifyEvent(userId, eventId) @@ [vendors |-> vendors]
        ELSE IF vendorIndex = 0 THEN NotFound("Vendor not found") @@ [vendors |-> vendors]
        ELSE [status |-> 204, body |-> <<>>, vendors |-> Splice(vendors, vendorIndex)]

(***************************************************************************)
(* routes/expenses.js                                                      *)
(***************************************************************************)
\* POST /api/events/:eventId/expenses
PostExpense(userId, eventId, body) ==
    LET newExpense == [id |-> nextId,
                       name |-> body.name,
                       category |-> body.category,
                       amount |-> ParseFloat(body.amount),
                       isPaid |-> ToBoolean(body.isPaid),
                       eventId |-> eventId,
                       createdAt |-> Now]
    IN  IF ~Verified(userId, eventId)
        THEN VerifyEvent(userId, eventId) @@ [expenses |-> expenses]
        ELSE [status |-> 201, body |-> Strip(newExpense),
              expenses |-> Append(expenses, newExpense)]

\* arr.reduce((sum, expense) => sum + expense.amount, 0)
RECURSIVE SumAmounts(_)
SumAmounts(arr) ==
    IF arr = <<>> THEN Zero
    ELSE NumAdd(SumAmounts(SubSeq(arr, 1, Len(arr) - 1)), arr[Len(arr)].amount)

\* eventExpenses.filter(expense => expense.isPaid)
Paid(arr) == SelectSeq(arr, LAMBDA expense : expense.isPaid)

\* The expenses of arr that are not paid.
Unpaid(arr) == SelectSeq(arr, LAMBDA expense : ~expense.isPaid)

\* A summary of the list route that adds up the unpaid amounts for
\* pendingAmount.
ListBudgetSummary_SumUnpaid(eventExpenses) ==
    [totalBudget |-> SumAmounts(eventExpenses),
     paidAmount |-> SumAmounts(Paid(eventExpenses)),
     pendingAmount |-> SumAmounts(Unpaid(eventExpenses))]

\* "Calculate budget summary" of the list route.
ListBudgetSummary(eventExpenses) ==
    LET totalBudget == SumAmounts(eventExpenses)
        paidAmount == SumAmounts(Paid(eventExpenses))
        pendingAmount == NumSub(totalBudget, paidAmount)
    IN  [totalBudget |-> totalBudget,
         paidAmount |-> paidAmount,
         pendingAmount |-> pendingAmount]

\* "Calculate budget summary" of the budget summary route.
BudgetSummary(eventExpenses) ==
    LET totalBudget == SumAmounts(eventExpenses)
        paidAmount == SumAmounts(Paid(eventExpenses))
    IN  [totalBudget |-> totalBudget,
         paidAmount |-> paidAmount,
         pendingAmount |-> NumSub(totalBudget, paidAmount)]

\* GET of the expense list that answers the list alone.
GetExpenses_ListOnly(userId, eventId) ==
    IF ~Verified(userId, eventId) THEN VerifyEvent(userId, eventId)
    ELSE LET eventExpenses == OfEvent(expenses, eventId)
         IN  [status |-> 200,
              body |-> [expenses |-> [i \in DOMAIN eventExpenses |->
                                         [id |-> eventExpenses[i].id,
                                          name |-> eventExpenses[i].name,
                                          category |-> eventExpenses[i].category,
                                          amount |-> eventExpenses[i].amount,
                                          isPaid |-> eventExpenses[i].isPaid]]]]

\* GET /api/events/:eventId/expenses
GetExpenses(userId, eventId) ==
    IF ~Verified(userId, eventId) THEN VerifyEvent(userId, eventId)
    ELSE LET eventExpenses == OfEvent(expenses, eventId)
         IN  [status |-> 200,
              body |-> [expenses |-> [i \in DOMAIN eventExpenses |->
                                         [id |-> eventExpenses[i].id,
                                          name |-> eventExpenses[i].name,
                                          category |-> eventExpenses[i].category,
                                          amount |-> eventExpenses[i].amount,
                                          isPaid |-> eventExpenses[i].isPaid]],
                        budgetSummary |-> ListBudgetSummary(eventExpenses)]]

\* GET /api/events/:eventId/expenses/:expenseId
GetExpense(userId, eventId, expenseId) ==
    IF ~Verified(userId, eventId) THEN VerifyEvent(userId, eventId)
    ELSE IF FindChildIndex(expenses, expenseId, eventId) = 0
    THEN NotFound("Expense not found")
    ELSE [status |-> 200,
          body |-> Strip(expenses[FindChildIndex(expenses, expenseId, eventId)])]

\* The assignments of an expense PUT that sets isPaid without testing that
\* the body has one: expense.isPaid = Boolean(updates.isPaid).
UpdateExpenseFields_PaidAlways(expense, updates) ==
    [expense EXCEPT
        !.name = IF Truthy(Prop(updates, "name")) THEN updates.name ELSE @,
        !.category = IF Truthy(Prop(updates, "category")) THEN updates.category ELSE @,
        !.amount = IF Prop(updates, "amount") # Undefined
                   THEN ParseFloat(updates.amount) ELSE @,
        !.isPaid = ToBoolean(Prop(updates, "isPaid"))]

\* The assignments of a PUT that copies every property of the body that
\* the expense has: Object.assign(expense, updates).
UpdateExpenseFields_Assign(expense, updates) ==
    [p \in DOMAIN expense |-> IF p \in DOMAIN updates THEN updates[p] ELSE expense[p]]

\* The assignments of PUT /api/events/:eventId/expenses/:expenseId to the expense.
UpdateExpenseFields(expense, updates) ==
    [expense EXCEPT
        !.name = IF Truthy(Prop(updates, "name")) THEN updates.name ELSE @,
        !.category = IF Truthy(Prop(updates, "category")) THEN updates.category ELSE @,
        !.amount = IF Prop(updates, "amount") # Undefined
                   THEN ParseFloat(updates.amount) ELSE @,
        !.isPaid = IF Prop(updates, "isPaid") # Undefined
                   THEN ToBoolean(updates.isPaid) ELSE @]

\* PUT /api/events/:eventId/expenses/:expenseId
PutExpense(userId, eventId, expenseId, updates) ==
    LET expenseIndex == FindChildIndex(expenses, expenseId, eventId)
    IN  IF ~Verified(userId, eventId)
        THEN VerifyEvent(userId, eventId) @@ [expenses |-> expenses]
        ELSE IF expenseIndex = 0
        THEN NotFound("Expense not found") @@ [expenses |-> expenses]
        ELSE LET expense == UpdateExpenseFields(expenses[expenseIndex], updates)
             IN  [status |-> 200, body |-> Strip(expense),
                  expenses |-> [expenses EXCEPT ![expenseIndex] = expense]]

\* DELETE /api/events/:eventId/expenses/:expenseId
DeleteExpense(userId, eventId, expenseId) ==
    LET expenseIndex == FindChildIndex(expenses, expenseId, eventId)
    IN  IF ~Verified(userId, eventId)
        THEN VerifyEvent(userId, eventId) @@ [expenses |-> expenses]
        ELSE IF expenseIndex = 0
        THEN NotFound("Expense not found") @@ [expenses |-> expenses]
        ELSE [status |-> 204, body |-> <<>>, expenses |-> Splice(expenses, expenseIndex)]

\* Names every object literal {} inherits from Object.prototype: acc[name] is
\* a function (truthy) before anything was stored under the name.
ObjectPrototypeKeys ==
    {"constructor", "toString", "valueOf", "hasOwnProperty", "isPrototypeOf",
     "propertyIsEnumerable", "toLocaleString"}

\* What += leaves under such a name: the source text of the function with
\* the digits of the amount appended, a string.  Held as a value that is
\* the image of no number.
NativeCodeText == <<-1, -1, -1>>

\* "Group by category":
\* eventExpenses.reduce((acc, expense) => {
\*   if (!acc[expense.category]) acc[expense.category] = 0;
\*   acc[expense.category] += expense.amount; return acc; }, {})
RECURSIVE CategoryBreakdown(_)
CategoryBreakdown(eventExpenses) ==
    IF eventExpenses = <<>> THEN [category \in {} |-> Zero]
    ELSE LET acc == CategoryBreakdown(SubSeq(eventExpenses, 1, Len(eventExpenses) - 1))
             expense == eventExpenses[Len(eventExpenses)]
             own == expense.category \in DOMAIN acc
             falsy == IF own THEN acc[expense.category] = Zero
                      ELSE expense.category \notin ObjectPrototypeKeys
             before == IF falsy THEN Zero
                       ELSE IF own THEN acc[expense.category] ELSE NativeCodeText
             after == IF before = NativeCodeText THEN NativeCodeText
                      ELSE NumAdd(before, expense.amount)
         IN  [category \in DOMAIN acc \cup {expense.category} |->
                 IF category = expense.category THEN after ELSE acc[category]]

\* GET /api/events/:eventId/expenses/summary/budget
GetBudgetSummary(userId, eventId) ==
    IF ~Verified(userId, eventId) THEN VerifyEvent(userId, eventId)
    ELSE LET eventExpenses == OfEvent(expenses, eventId)
         IN  [status |-> 200,
              body |-> BudgetSummary(eventExpenses)
                           @@ [categoryBreakdown |-> CategoryBreakdown(eventExpenses)]]

(***************************************************************************)
(* The requests the exploration sends to the child routes.  The four child *)
(* routers share no state but `events`, so one behaviour changes the       *)
(* records of one child collection only (OnlyChanged).                     *)
(***************************************************************************)
OnlyChanged(kind) ==
    /\ kind = "tasks" \/ tasks = SeedTasks
    /\ kind = "guests" \/ guests = SeedGuests
    /\ kind = "vendors" \/ vendors = SeedVendors
    /\ kind = "expenses" \/ expenses = SeedExpenses

TaskBodies ==
    { [name |-> "Send invites"],
      [name |-> "Hire DJ", description |-> "Ask for a quote", assigneeId |-> "u-2",
       dueDate |-> "2024-08-01", status |-> "Completed"] }

TaskUpdates ==
    { [status |-> "Completed"],
      [name |-> "Book Hall", description |-> "", dueDate |-> "2024-08-01T12:00:00.000Z"] }

GuestBodies ==
    { [name |-> "Jane S", email |-> "Jane@Example.com"],
      [name |-> "Bob", email |-> "bob@example.com", plusOne |-> "2", notes |-> "Late"] }

GuestUpdates ==
    { [rsvpStatus |-> "Confirmed", plusOne |-> "0", notes |-> ""] }

VendorBodies ==
    { [companyName |-> "Beats", contactName |-> "DJ Bo", email |-> "dj@example.com",
       serviceProvided |-> "Music"],
      [companyName |-> "Elegant", contactName |-> "Sarah J",
       email |-> "Sarah@ElegantCatering.com", serviceProvided |-> "Catering"] }

VendorUpdates ==
    { [email |-> "Sarah@ElegantCatering.com"],
      [companyName |-> "Beats Inc", contactName |-> "Bo", serviceProvided |-> "Sound"] }

ExpenseBodies ==
    { [name |-> "Flowers", category |-> "Decor", amount |-> "0.2", isPaid |-> "false"],
      [name |-> "Cake", category |-> "Decor", amount |-> "0.05", isPaid |-> "false"] }

ExpenseUpdates ==
    { [amount |-> "0.1"],
      [name |-> "Hall", category |-> "constructor", isPaid |-> "'false'"] }

PostTaskReq ==
    \E userId \in Users, eventId \in Ids, body \in TaskBodies :
        LET res == PostTask(userId, eventId, body)
        IN  /\ nextId <= MaxId
            /\ OnlyChanged("tasks")
            /\ tasks' = res.tasks
            /\ nextId' = IF res.status = 201 THEN nextId + 1 ELSE nextId
            /\ UNCHANGED <<users, events, guests, vendors, expenses, deleted, served>>

PutTaskReq ==
    \E userId \in Users, eventId \in Ids, taskId \in Ids, updates \in TaskUpdates :
        /\ OnlyChanged("tasks")
        /\ tasks' = PutTask(userId, eventId, taskId, updates).tasks
        /\ UNCHANGED <<users, events, guests, vendors, expenses, nextId, deleted, served>>

DeleteTaskReq ==
    \E userId \in Users, eventId \in Ids, taskId \in Ids :
        LET res == DeleteTask(userId, eventId, taskId)
        IN  /\ OnlyChanged("tasks")
            /\ tasks' = res.tasks
            /\ deleted' = MarkDeleted("tasks", taskId, res.status)
            /\ UNCHANGED <<users, events, guests, vendors, expenses, nextId, served>>

PostGuestReq ==
    \E userId \in Users, eventId \in Ids, body \in GuestBodies :
        LET res == PostGuest(userId, eventId, body)
        IN  /\ nextId <= MaxId
            /\ OnlyChanged("guests")
            /\ guests' = res.guests
            /\ nextId' = IF res.status = 201 THEN nextId + 1 ELSE nextId
            /\ UNCHANGED <<users, events, tasks, vendors, expenses, deleted, served>>

PutGuestReq ==
    \E userId \in Users, eventId \in Ids, guestId \in Ids, updates \in GuestUpdates :
        /\ OnlyChanged("guests")
        /\ guests' = PutGuest(userId, eventId, guestId, updates).guests
        /\ UNCHANGED <<users, events, tasks, vendors, expenses, nextId, deleted, served>>

DeleteGuestReq ==
    \E userId \in Users, eventId \in Ids, guestId \in Ids :
        LET res == DeleteGuest(userId, eventId, guestId)
        IN  /\ OnlyChanged("guests")
            /\ guests' = res.guests
            /\ deleted' = MarkDeleted("guests", guestId, res.status)
            /\ UNCHANGED <<users, events, tasks, vendors, expenses, nextId, served>>

PostVendorReq ==
    \E userId \in Users, eventId \in Ids, body \in VendorBodies :
        LET res == PostVendor(userId, eventId, body)
        IN  /\ nextId <= MaxId
            /\ OnlyChanged("vendors")
            /\ vendors' = res.vendors
            /\ nextId' = IF res.status = 201 THEN nextId + 1 ELSE nextId
            /\ UNCHANGED <<users, events, tasks, guests, expenses, deleted, served>>

PutVendorReq ==
    \E userId \in Users, eventId \in Ids, vendorId \in Ids, updates \in VendorUpdates :
        /\ OnlyChanged("vendors")
        /\ vendors' = PutVendor(userId, eventId, vendorId, updates).vendors
        /\ UNCHANGED <<users, events, tasks, guests, expenses, nextId, deleted, served>>

DeleteVendorReq ==
    \E userId \in Users, eventId \in Ids, vendorId \in Ids :
        LET res == DeleteVendor(userId, eventId, vendorId)
        IN  /\ OnlyChanged("vendors")
            /\ vendors' = res.vendors
            /\ deleted' = MarkDeleted("vendors", vendorId, res.status)
            /\ UNCHANGED <<users, events, tasks, guests, expenses, nextId, served>>

PostExpenseReq ==
    \E userId \in Users, eventId \in Ids, body \in ExpenseBodies :
        LET res == PostExpense(userId, eventId, body)
        IN  /\ nextId <= MaxId
            /\ OnlyChanged("expenses")
            /\ expenses' = res.expenses
            /\ nextId' = IF res.status = 201 THEN nextId + 1 ELSE nextId
            /\ UNCHANGED <<users, events, tasks, guests, vendors, deleted, served>>

PutExpenseReq ==
    \E userId \in Users, eventId \in Ids, expenseId \in Ids, updates \in ExpenseUpdates :
        /\ OnlyChanged("expenses")
        /\ expenses' = PutExpense(userId, eventId, expenseId, updates).expenses
        /\ UNCHANGED <<users, events, tasks, guests, vendors, nextId, deleted, served>>

DeleteExpenseReq ==
    \E userId \in Users, eventId \in Ids, expenseId \in Ids :
        LET res == DeleteExpense(userId, eventId, expenseId)
        IN  /\ OnlyChanged("expenses")
            /\ expenses' = res.expenses
            /\ deleted' = MarkDeleted("expenses", expenseId, res.status)
            /\ UNCHANGED <<users, events, tasks, guests, vendors, nextId, served>>

Next ==
    \/ PostEventReq \/ PutEventReq \/ DeleteEventReq
    \/ PostTaskReq \/ PutTaskReq \/ DeleteTaskReq
    \/ PostGuestReq \/ PutGuestReq \/ DeleteGuestReq
    \/ PostVendorReq \/ PutVendorReq \/ DeleteVendorReq
    \/ PostExpenseReq \/ PutExpenseReq \/ DeleteExpenseReq

Spec == Init /\ [][Next]_vars

(***************************************************************************)
(* Requests the properties quantify over: every caller, every id, and      *)
(* bodies holding any subset of the properties a route reads.              *)
(***************************************************************************)
\* The bodies that hold, for each p of any set of the names of `choices`,
\* one of the values choices[p].
Bodies(choices) ==
    UNION { { body \in [props -> UNION { choices[p] : p \in props }] :
                  \A p \in props : body[p] \in choices[p] } :
            props \in SUBSET DOMAIN choices }

\* The bodies of Bodies(choices) that hold every name of `required`.
BodiesWith(required, choices) ==
    { body \in Bodies(choices) : required \subseteq DOMAIN body }

AnyEventUpdates ==
    Bodies([name |-> {"Launch"}, type |-> {"Party"},
            date |-> {"2024-08-01"}, description |-> {"", "Moved"}])

AnyTaskBodies ==
    BodiesWith({"name"},
               [name |-> {"Send invites"}, description |-> {"Ask for a quote"},
                assigneeId |-> {"u-2"}, dueDate |-> {"2024-08-01"},
                status |-> {"Completed", "In Progress"}])

AnyTaskUpdates ==
    Bodies([name |-> {"Book Hall"}, description |-> {"", "Call them"},
            assigneeId |-> {"u-2"}, dueDate |-> {"2024-08-01T12:00:00.000Z"},
            status |-> {"Completed", "On Hold"}])

AnyGuestBodies ==
    BodiesWith({"name", "email"},
               [name |-> {"Bob"},
                email |-> {"jane@example.com", "Jane@Example.com", "bob@example.com"},
                plusOne |-> {"0", "2"}, notes |-> {"Late"}])

AnyGuestUpdates ==
    BodiesWith({"rsvpStatus"},
               [rsvpStatus |-> {"Confirmed", "Maybe"}, plusOne |-> {"0", "3"},
                notes |-> {"", "Allergy"}, name |-> {"Janet"}])

AnyVendorBodies ==
    BodiesWith({"companyName", "contactName", "email", "serviceProvided"},
               [companyName |-> {"Beats"}, contactName |-> {"DJ Bo"},
                email |-> {"dj@example.com", "sarah@elegantcatering.com",
                           "Sarah@ElegantCatering.com"},
                serviceProvided |-> {"Music"}])

AnyVendorUpdates ==
    Bodies([companyName |-> {"Beats Inc"}, contactName |-> {"Bo"},
            email |-> {"dj@example.com", "Sarah@ElegantCatering.com"},
            serviceProvided |-> {"Sound"}])

AnyExpenseBodies ==
    BodiesWith({"name", "category", "amount", "isPaid"},
               [name |-> {"Flowers"}, category |-> {"Decor", "Venue"},
                amount |-> {"0", "0.1", "0.05"},
                isPaid |-> {"true", "false", "'false'"}])

AnyExpenseUpdates ==
    Bodies([name |-> {"Hall"}, category |-> {"Food"},
            amount |-> {"0", "0.2"}, isPaid |-> {"true", "false", "'false'"}])

(***************************************************************************)
(* Properties.                                                             *)
(***************************************************************************)
EventIdsInStore == { events[i].id : i \in DOMAIN events }

\* The caller is neither the host of the event nor one of its collaborators.
Unrelated(event, userId) ==
    event.hostId # userId /\ \A i \in DOMAIN event.collaborators :
                                 event.collaborators[i] # userId

AccessDenied == [error |-> "Access denied to this event"]

\* C1: for every stored event E and caller C, the handlers treat C as host
\* (may update and delete E) iff E.hostId = C, as collaborator (may read E,
\* may not update or delete it) iff C is in E.collaborators, and deny C
\* otherwise; the three cases exclude each other, so no event lists its host
\* as a collaborator.
C1_AccessDecision ==
    \A i \in DOMAIN events : \A userId \in Users :
        LET event == events[i]
            read == GetEvent(userId, event.id).status
            write == PutEvent(userId, event.id, << >>).status
            remove == DeleteEvent(userId, event.id).status
            asHost == read = 200 /\ write = 200 /\ remove = 204
            asCollaborator == read = 200 /\ write = 403 /\ remove = 403
            denied == read = 403 /\ write = 403 /\ remove = 403
        IN  /\ asHost <=> event.hostId = userId
            /\ asCollaborator <=> Includes(event.collaborators, userId)
            /\ denied <=> (event.hostId # userId /\ ~Includes(event.collaborators, userId))
            /\ asHost \/ asCollaborator \/ denied
            /\ ~Includes(event.collaborators, event.hostId)

\* C1 witness: an event created by a request of user 2 is stored; user 2 is
\* treated as its host and user 1 is denied.
C1_Witness ==
    \E i \in DOMAIN events :
        /\ events[i].id > 1 /\ events[i].hostId = 2
        /\ GetEvent(2, events[i].id).status = 200
        /\ DeleteEvent(2, events[i].id).status = 204
        /\ GetEvent(1, events[i].id).status = 403

\* C2: for every stored event E and every caller C that is neither its host
\* nor a collaborator, GET of E and every create, list, read-one, update and
\* delete of a task, guest, vendor or expense under E, and the budget summary
\* of E, answer 403 with nothing but the error message, and change nothing.
C2_UnrelatedCallerForbidden ==
    \A i \in DOMAIN events : \A userId \in Users :
        Unrelated(events[i], userId) =>
            LET eventId == events[i].id
                Refused(res) == res.status = 403 /\ res.body = AccessDenied
            IN  /\ Refused(GetEvent(userId, eventId))
                /\ Refused(GetTasks(userId, eventId))
                /\ Refused(GetGuests(userId, eventId))
                /\ Refused(GetVendors(userId, eventId))
                /\ Refused(GetExpenses(userId, eventId))
                /\ Refused(GetBudgetSummary(userId, eventId))
                /\ \A body \in AnyTaskBodies :
                       LET res == PostTask(userId, eventId, body)
                       IN  Refused(res) /\ res.tasks = tasks
                /\ \A body \in AnyGuestBodies :
                       LET res == PostGuest(userId, eventId, body)
                       IN  Refused(res) /\ res.guests = guests
                /\ \A body \in AnyVendorBodies :
                       LET res == PostVendor(userId, eventId, body)
                       IN  Refused(res) /\ res.vendors = vendors
                /\ \A body \in AnyExpenseBodies :
                       LET res == PostExpense(userId, eventId, body)
                       IN  Refused(res) /\ res.expenses = expenses
                /\ \A id \in Ids :
                       /\ Refused(GetTask(userId, eventId, id))
                       /\ Refused(GetGuest(userId, eventId, id))
                       /\ Refused(GetVendor(userId, eventId, id))
                       /\ Refused(GetExpense(userId, eventId, id))
                       /\ LET res == DeleteTask(userId, eventId, id)
                          IN  Refused(res) /\ res.tasks = tasks
                       /\ LET res == DeleteGuest(userId, eventId, id)
                          IN  Refused(res) /\ res.guests = guests
                       /\ LET res == DeleteVendor(userId, eventId, id)
                          IN  Refused(res) /\ res.vendors = vendors
                       /\ LET res == DeleteExpense(userId, eventId, id)
                          IN  Refused(res) /\ res.expenses = expenses
                       /\ \A updates \in AnyTaskUpdates :
                              LET res == PutTask(userId, eventId, id, updates)
                              IN  Refused(res) /\ res.tasks = tasks
                       /\ \A updates \in AnyGuestUpdates :
                              LET res == PutGuest(userId, eventId, id, updates)
                              IN  Refused(res) /\ res.guests = guests
                       /\ \A updates \in AnyVendorUpdates :
                              LET res == PutVendor(userId, eventId, id, updates)
                              IN  Refused(res) /\ res.vendors = vendors
                       /\ \A updates \in AnyExpenseUpdates :
                              LET res == PutExpense(userId, eventId, id, updates)
                              IN  Refused(res) /\ res.expenses = expenses

\* C2 witness: user 2 hosts an event that holds an expense created by a
\* request; user 1, who is unrelated to it, is refused the expense and the
\* budget summary.
C2_Witness ==
    \E i \in DOMAIN events, j \in DOMAIN expenses :
        /\ events[i].hostId = 2 /\ Unrelated(events[i], 1)
        /\ expenses[j].eventId = events[i].id /\ expenses[j].id > 1
        /\ GetExpense(1, events[i].id, expenses[j].id).status = 403
        /\ GetBudgetSummary(1, events[i].id).status = 403
        /\ GetExpense(2, events[i].id, expenses[j].id).status = 200

\* C3: PUT and DELETE of an event succeed only for its host; for any other
\* caller, a collaborator included, they answer 403 and the event stays in
\* the store with every field as it was.
C3_OnlyHostChangesEvent ==
    \A i \in DOMAIN events : \A userId \in Users :
        LET removed == DeleteEvent(userId, events[i].id)
        IN  /\ removed.status = 204 => events[i].hostId = userId
            /\ events[i].hostId # userId =>
                   removed.status = 403 /\ removed.events = events
            /\ \A updates \in AnyEventUpdates \cup EventUpdates :
                   LET updated == PutEvent(userId, events[i].id, updates)
                   IN  /\ updated.status = 200 => events[i].hostId = userId
                       /\ events[i].hostId # userId =>
                              updated.status = 403 /\ updated.events = events

\* C3 witness: two events with different hosts are stored; each host is
\* refused on the other's event and may delete the own one.
C3_Witness ==
    \E i, j \in DOMAIN events :
        /\ events[i].hostId = 1 /\ events[j].hostId = 2
        /\ DeleteEvent(1, events[j].id).status = 403
        /\ PutEvent(2, events[i].id, [name |-> "Launch"]).status = 403
        /\ DeleteEvent(2, events[j].id).status = 204

\* C4: the hostId of an event is the caller of the request that created it,
\* and no step changes the hostId of an event that stays in the store.
C4_HostIdFixed ==
    [][ /\ \A i \in DOMAIN events : \A j \in DOMAIN events' :
               events[i].id = events'[j].id => events'[j].hostId = events[i].hostId
        /\ \A j \in DOMAIN events' :
               events'[j].id \notin EventIdsInStore =>
                   \E userId \in Users, body \in EventBodies :
                       /\ events' = PostEvent(userId, body).events
                       /\ events'[j].hostId = userId ]_vars

\* C4 witness: an event created by a request of user 3 has been updated by
\* its host and still has hostId 3.
C4_Witness ==
    \E i \in DOMAIN events :
        events[i].id > 1 /\ events[i].hostId = 3 /\ events[i].name = "Launch"

\* C5: once the host of an event has sent a PUT that names user X among the
\* collaborators and was answered 200, X can create a task under the event
\* (201), while any other caller who is not the host is still refused.
C5_CollaboratorCanPostTask ==
    [][ \A i \in DOMAIN events : \A updates \in EventUpdates :
          \A x \in Users \ {events[i].hostId} :
            LET eventId == events[i].id
                res == PutEvent(events[i].hostId, eventId, updates)
            IN  ( /\ "collaborators" \in DOMAIN updates
                  /\ Includes(updates.collaborators, x)
                  /\ res.status = 200
                  /\ events' = res.events )
                => ( /\ PostTask(x, eventId, [name |-> "Send invites"]).status = 201
                     /\ \A u \in Users \ {events[i].hostId, x} :
                            PostTask(u, eventId, [name |-> "Send invites"]).status
                                \in {403, 404} )' ]_vars

\* May the caller use the children of the event: host or collaborator.
Authorized(event, userId) ==
    event.hostId = userId \/ \E i \in DOMAIN event.collaborators :
                                 event.collaborators[i] = userId

GuestHasEmail(eventId, email) ==
    \E g \in DOMAIN guests : guests[g].eventId = eventId /\ guests[g].email = email

\* C6: an authorized create of a guest under event E with an email that a
\* stored guest of E has answers 400 and adds no guest; with the same email
\* under another event that has no such guest it answers 201 and stores the
\* guest under that event.
C6_DuplicateGuestEmail ==
    \A i \in DOMAIN events : \A body \in AnyGuestBodies :
        GuestHasEmail(events[i].id, body.email) =>
            /\ \A userId \in Users :
                   Authorized(events[i], userId) =>
                       LET res == PostGuest(userId, events[i].id, body)
                       IN  res.status = 400 /\ res.guests = guests
            /\ \A j \in DOMAIN events : \A userId \in Users :
                   ( /\ Authorized(events[j], userId)
                     /\ ~GuestHasEmail(events[j].id, body.email) )
                   => LET res == PostGuest(userId, events[j].id, body)
                      IN  /\ res.status = 201
                          /\ Len(res.guests) = Len(guests) + 1
                          /\ SubSeq(res.guests, 1, Len(guests)) = guests
                          /\ res.guests[Len(res.guests)].eventId = events[j].id
                          /\ res.guests[Len(res.guests)].email = body.email

\* C6 witness: a guest created by a request has the email of a guest of
\* another event, and a second create with it is refused in both events.
C6_Witness ==
    \E g, h \in DOMAIN guests :
        /\ guests[g].id = 1 /\ guests[h].id > 1
        /\ guests[g].email = guests[h].email
        /\ guests[g].eventId # guests[h].eventId
        /\ EventExists(guests[g].eventId) /\ EventExists(guests[h].eventId)
        /\ \A k \in {g, h} :
               PostGuest(FindEvent(guests[k].eventId).hostId, guests[k].eventId,
                         [name |-> "Bob", email |-> guests[k].email]).status = 400

\* C7: no two stored guests of the same event have the same email.
C7_GuestEmailUnique ==
    \A g, h \in DOMAIN guests :
        (g # h /\ guests[g].eventId = guests[h].eventId)
            => guests[g].email # guests[h].email

\* C7 witness: one stored event holds two guests, the second of them
\* created by a request.
C7_Witness ==
    \E g, h \in DOMAIN guests :
        /\ g # h /\ guests[g].eventId = guests[h].eventId
        /\ guests[h].id > 1
        /\ EventExists(guests[g].eventId)

\* C8: no two stored vendors of the same event have the same email, also
\* after updates of a vendor's email.
C8_VendorEmailUnique ==
    \A v, w \in DOMAIN vendors :
        (v # w /\ vendors[v].eventId = vendors[w].eventId)
            => vendors[v].email # vendors[w].email

\* The collection and the read-one, update and delete results for an id
\* under an event, by kind of child.
ChildResults(kind, userId, eventId, id) ==
    CASE kind = "tasks" ->
             {GetTask(userId, eventId, id).status, DeleteTask(userId, eventId, id).status}
                 \cup {PutTask(userId, eventId, id, u).status : u \in AnyTaskUpdates}
      [] kind = "guests" ->
             {GetGuest(userId, eventId, id).status, DeleteGuest(userId, eventId, id).status}
                 \cup {PutGuest(userId, eventId, id, u).status : u \in AnyGuestUpdates}
      [] kind = "vendors" ->
             {GetVendor(userId, eventId, id).status, DeleteVendor(userId, eventId, id).status}
                 \cup {PutVendor(userId, eventId, id, u).status : u \in AnyVendorUpdates}
      [] kind = "expenses" ->
             {GetExpense(userId, eventId, id).status,
              DeleteExpense(userId, eventId, id).status}
                 \cup {PutExpense(userId, eventId, id, u).status : u \in AnyExpenseUpdates}

EventResults(userId, id) ==
    {GetEvent(userId, id).status, DeleteEvent(userId, id).status}
        \cup {PutEvent(userId, id, u).status : u \in AnyEventUpdates}

\* C9 as claimed: once a delete of an id was answered 204, every read,
\* update and delete of that id, by any caller, answers 404.
C9_DeletedIsNotFound ==
    /\ \A id \in deleted["events"] : \A userId \in Users :
           EventResults(userId, id) = {404}
    /\ \A kind \in Kinds \ {"events"} : \A id \in deleted[kind] :
           \A userId \in Users, eventId \in Ids :
               ChildResults(kind, userId, eventId, id) = {404}

\* C9 as amended: once a delete of an id was answered 204, every read,
\* update and delete of that id answers 404, except that a caller who is
\* neither host nor collaborator of the existing event the request names is
\* answered 403; none succeeds.
C9_DeletedIsGone ==
    /\ \A id \in deleted["events"] : \A userId \in Users :
           EventResults(userId, id) = {404}
    /\ \A kind \in Kinds \ {"events"} : \A id \in deleted[kind] :
           \A userId \in Users, eventId \in Ids :
               ChildResults(kind, userId, eventId, id) =
                   IF EventExists(eventId) /\ Unrelated(FindEvent(eventId), userId)
                   THEN {403} ELSE {404}

\* C9 witness: an event and a vendor created by requests have both been
\* deleted, and the seed event still exists.
C9_Witness ==
    /\ \E id \in deleted["events"] : id > 1
    /\ \E id \in deleted["vendors"] : id > 1
    /\ EventExists(1)

\* C10: for every stored event, the budget summary has totalBudget the sum
\* of the amounts of the stored expenses of that event, paidAmount the sum
\* of those that are paid, and paidAmount + pendingAmount = totalBudget.
C10_BudgetAddsUp ==
    \A i \in DOMAIN events : \A userId \in Users :
        Authorized(events[i], userId) =>
            LET res == GetBudgetSummary(userId, events[i].id)
                own == SelectSeq(expenses, LAMBDA e : e.eventId = events[i].id)
                ownPaid == SelectSeq(own, LAMBDA e : e.isPaid = TRUE)
            IN  /\ res.status = 200
                /\ res.body.totalBudget = SumAmounts(own)
                /\ res.body.paidAmount = SumAmounts(ownPaid)
                /\ NumAdd(res.body.paidAmount, res.body.pendingAmount)
                       = res.body.totalBudget

\* The expenses stored under an event, and their categories.
ExpensesOf(eventId) == SelectSeq(expenses, LAMBDA e : e.eventId = eventId)

CategoriesOf(eventId) ==
    { ExpensesOf(eventId)[k].category : k \in DOMAIN ExpensesOf(eventId) }

\* The ways to list the members of a finite set one after the other.
Orderings(S) ==
    { o \in [1..Cardinality(S) -> S] :
        \A a, b \in 1..Cardinality(S) : a # b => o[a] # o[b] }

\* The values of f added up in the order the sequence gives the keys.
RECURSIVE SumInOrder(_, _)
SumInOrder(f, order) ==
    IF order = <<>> THEN Zero
    ELSE NumAdd(SumInOrder(f, SubSeq(order, 1, Len(order) - 1)), f[order[Len(order)]])

\* C11: for every stored event, the categoryBreakdown of the budget summary
\* has as keys exactly the categories of the event's stored expenses, maps
\* each category to the sum of the amounts of the event's expenses of that
\* category, and its values add up (in some order) to totalBudget.
C11_CategoryBreakdown ==
    \A i \in DOMAIN events : \A userId \in Users :
        Authorized(events[i], userId) =>
            LET body == GetBudgetSummary(userId, events[i].id).body
                breakdown == body.categoryBreakdown
                own == ExpensesOf(events[i].id)
            IN  /\ DOMAIN breakdown = CategoriesOf(events[i].id)
                /\ \A c \in DOMAIN breakdown :
                       breakdown[c] = SumAmounts(SelectSeq(own, LAMBDA e : e.category = c))
                /\ \E order \in Orderings(DOMAIN breakdown) :
                       SumInOrder(breakdown, order) = body.totalBudget

\* C12: in the state a successful create leaves, the read-one of the new id
\* by the same caller answers 200 with exactly the record the create
\* answered: for an Event and a Task every field the create set, for a
\* Guest, Vendor and Expense every field but eventId and createdAt.
C12_ReadAfterCreate ==
    [][ nextId' = nextId + 1 => \A userId \in Users : \A id \in {nextId} :
          /\ \A body \in EventBodies :
                 LET res == PostEvent(userId, body)
                 IN  (res.status = 201 /\ nextId' = id + 1 /\ events' = res.events)
                     => /\ (GetEvent(userId, id))' = [status |-> 200, body |-> res.body]
                        /\ res.body = (events[Len(events)])'
          /\ \A eventId \in Ids :
                 /\ \A body \in TaskBodies :
                        LET res == PostTask(userId, eventId, body)
                        IN  (res.status = 201 /\ nextId' = id + 1 /\ tasks' = res.tasks)
                            => /\ (GetTask(userId, eventId, id))'
                                      = [status |-> 200, body |-> res.body]
                               /\ res.body = (tasks[Len(tasks)])'
                 /\ \A body \in GuestBodies :
                        LET res == PostGuest(userId, eventId, body)
                        IN  (res.status = 201 /\ nextId' = id + 1 /\ guests' = res.guests)
                            => /\ (GetGuest(userId, eventId, id))'
                                      = [status |-> 200, body |-> res.body]
                               /\ DOMAIN res.body = (DOMAIN guests[Len(guests)])'
                                                        \ {"eventId", "createdAt"}
                               /\ \A p \in DOMAIN res.body :
                                      res.body[p] = (guests[Len(guests)][p])'
                 /\ \A body \in VendorBodies :
                        LET res == PostVendor(userId, eventId, body)
                        IN  (res.status = 201 /\ nextId' = id + 1 /\ vendors' = res.vendors)
                            => /\ (GetVendor(userId, eventId, id))'
                                      = [status |-> 200, body |-> res.body]
                               /\ DOMAIN res.body = (DOMAIN vendors[Len(vendors)])'
                                                        \ {"eventId", "createdAt"}
                               /\ \A p \in DOMAIN res.body :
                                      res.body[p] = (vendors[Len(vendors)][p])'
                 /\ \A body \in ExpenseBodies :
                        LET res == PostExpense(userId, eventId, body)
                        IN  (res.status = 201 /\ nextId' = id + 1 /\ expenses' = res.expenses)
                            => /\ (GetExpense(userId, eventId, id))'
                                      = [status |-> 200, body |-> res.body]
                               /\ DOMAIN res.body = (DOMAIN expenses[Len(expenses)])'
                                                        \ {"eventId", "createdAt"}
                               /\ \A p \in DOMAIN res.body :
                                      res.body[p] = (expenses[Len(expenses)][p])'
      ]_vars

\* C12 witness: a guest created by a request is stored under an existing
\* event and its host reads it back without eventId and createdAt.
C12_Witness ==
    \E g \in DOMAIN guests :
        /\ guests[g].id > 1
        /\ EventExists(guests[g].eventId)
        /\ LET res == GetGuest(FindEvent(guests[g].eventId).hostId,
                               guests[g].eventId, guests[g].id)
           IN  /\ res.status = 200
               /\ DOMAIN res.body = DOMAIN guests[g] \ {"eventId", "createdAt"}

\* C12 as claimed: in the state a successful create leaves, the read-one of
\* the new id by the same caller answers 200 with every field the create
\* set in the stored record, no more and no fewer.
C12_ReadReturnsAllCreated ==
    [][ nextId' = nextId + 1 => \A userId \in Users, eventId \in Ids : \A id \in {nextId} :
          /\ \A body \in EventBodies :
                 (PostEvent(userId, body).status = 201
                      /\ events' = PostEvent(userId, body).events)
                 => (GetEvent(userId, id))' = [status |-> 200, body |-> (events[Len(events)])']
          /\ \A body \in TaskBodies :
                 (PostTask(userId, eventId, body).status = 201
                      /\ tasks' = PostTask(userId, eventId, body).tasks)
                 => (GetTask(userId, eventId, id))'
                        = [status |-> 200, body |-> (tasks[Len(tasks)])']
          /\ \A body \in GuestBodies :
                 (PostGuest(userId, eventId, body).status = 201
                      /\ guests' = PostGuest(userId, eventId, body).guests)
                 => (GetGuest(userId, eventId, id))'
                        = [status |-> 200, body |-> (guests[Len(guests)])']
          /\ \A body \in VendorBodies :
                 (PostVendor(userId, eventId, body).status = 201
                      /\ vendors' = PostVendor(userId, eventId, body).vendors)
                 => (GetVendor(userId, eventId, id))'
                        = [status |-> 200, body |-> (vendors[Len(vendors)])']
          /\ \A body \in ExpenseBodies :
                 (PostExpense(userId, eventId, body).status = 201
                      /\ expenses' = PostExpense(userId, eventId, body).expenses)
                 => (GetExpense(userId, eventId, id))'
                        = [status |-> 200, body |-> (expenses[Len(expenses)])']
      ]_vars

\* Values of Math.floor(Math.random() * 100), one draw per listed event.
Draws == {0, 50, 99}

RandomDraws == [DOMAIN events -> Draws]

\* C13: GET /events of caller C lists, in the order of the store, exactly
\* the stored events whose hostId is C or whose collaborators contain C,
\* each with its own id, name, type and date; an event hosted by another
\* user who did not list C is in no list of C.
C13_EventListScoped ==
    \A userId \in Users : \A random \in RandomDraws :
        LET res == GetEvents(userId, random)
            mine == SelectSeq(events, LAMBDA e : Authorized(e, userId))
        IN  /\ res.status = 200
            /\ Len(res.body) = Len(mine)
            /\ \A k \in DOMAIN mine :
                   /\ res.body[k].id = mine[k].id
                   /\ res.body[k].name = mine[k].name
                   /\ res.body[k].type = mine[k].type
                   /\ res.body[k].date = mine[k].date
            /\ \A i \in DOMAIN events :
                   (\E k \in DOMAIN res.body : res.body[k].id = events[i].id)
                       <=> Authorized(events[i], userId)

\* C13 witness: users 1 and 2 each host one stored event and user 3 none;
\* the list of user 2 has one entry, the list of user 3 is empty.
C13_Witness ==
    /\ Len(events) = 2
    /\ events[1].hostId = 1 /\ events[2].hostId = 2
    /\ \E random \in RandomDraws :
           /\ Len(GetEvents(2, random).body) = 1
           /\ GetEvents(2, random).body[1].id = events[2].id
           /\ GetEvents(3, random).body = <<>>

\* The status of an answer and, when it is an error, its message.
Outcome(res) ==
    [status |-> res.status, error |-> IF res.status >= 400 THEN res.body.error ELSE ""]

\* The outcomes of the requests that name an event and no child: the
\* creates, the lists and the budget summary.
ScopedOutcomes(userId, eventId) ==
    {Outcome(GetTasks(userId, eventId)), Outcome(GetGuests(userId, eventId)),
     Outcome(GetVendors(userId, eventId)), Outcome(GetExpenses(userId, eventId)),
     Outcome(GetBudgetSummary(userId, eventId))}
        \cup {Outcome(PostTask(userId, eventId, b)) : b \in AnyTaskBodies}
        \cup {Outcome(PostGuest(userId, eventId, b)) : b \in AnyGuestBodies}
        \cup {Outcome(PostVendor(userId, eventId, b)) : b \in AnyVendorBodies}
        \cup {Outcome(PostExpense(userId, eventId, b)) : b \in AnyExpenseBodies}

\* The outcomes of the read-one, update and delete of a child id.
ChildOutcomes(userId, eventId, id) ==
    {Outcome(GetTask(userId, eventId, id)), Outcome(DeleteTask(userId, eventId, id)),
     Outcome(GetGuest(userId, eventId, id)), Outcome(DeleteGuest(userId, eventId, id)),
     Outcome(GetVendor(userId, eventId, id)), Outcome(DeleteVendor(userId, eventId, id)),
     Outcome(GetExpense(userId, eventId, id)), Outcome(DeleteExpense(userId, eventId, id))}
        \cup {Outcome(PutTask(userId, eventId, id, u)) : u \in TaskUpdates}
        \cup {Outcome(PutGuest(userId, eventId, id, u)) : u \in GuestUpdates}
        \cup {Outcome(PutVendor(userId, eventId, id, u)) : u \in VendorUpdates}
        \cup {Outcome(PutExpense(userId, eventId, id, u)) : u \in ExpenseUpdates}

EventNotFound == [status |-> 404, error |-> "Event not found"]

EventDenied == [status |-> 403, error |-> "Access denied to this event"]

ChildNotFound ==
    { [status |-> 404, error |-> m] :
        m \in {"Task not found", "Guest not found", "Vendor not found", "Expense not found"} }

\* C14: every request under an event id that no stored event has is answered
\* 404 "Event not found", whoever calls; under a stored event a caller who is
\* neither host nor collaborator is answered 403, whether or not the child id
\* exists; the 404 of a missing child is answered to callers with access only.
C14_LookupAccessChild ==
    \A userId \in Users, eventId \in Ids :
        LET scoped == ScopedOutcomes(userId, eventId)
            child == UNION {ChildOutcomes(userId, eventId, id) : id \in Ids}
            outcomes == scoped \cup child
        IN  /\ ~EventExists(eventId) => outcomes = {EventNotFound}
            /\ (EventExists(eventId) /\ Unrelated(FindEvent(eventId), userId))
                   => outcomes = {EventDenied}
            /\ (outcomes \cap ChildNotFound # {})
                   => EventExists(eventId) /\ Authorized(FindEvent(eventId), userId)
            /\ (EventExists(eventId) /\ Authorized(FindEvent(eventId), userId))
                   => /\ EventNotFound \notin outcomes /\ EventDenied \notin outcomes
                      /\ \A id \in Ids :
                             (\A v \in DOMAIN vendors : vendors[v].id # id)
                                 => [status |-> 404, error |-> "Vendor not found"]
                                        \in ChildOutcomes(userId, eventId, id)

\* C14 witness: user 2 hosts a stored event; for a vendor id that is not
\* stored, user 2 is answered "Vendor not found", user 1 "Access denied",
\* and under an event id that is not stored both are answered "Event not
\* found"; a vendor has been deleted after these checks passed.
C14_Witness ==
    \E e \in DOMAIN events : \E id \in deleted["vendors"], gone \in Ids :
        /\ events[e].hostId = 2
        /\ ~EventExists(gone)
        /\ Outcome(DeleteVendor(2, events[e].id, id))
               = [status |-> 404, error |-> "Vendor not found"]
        /\ Outcome(DeleteVendor(1, events[e].id, id)) = EventDenied
        /\ Outcome(DeleteVendor(1, gone, id)) = EventNotFound
        /\ Outcome(DeleteVendor(2, gone, id)) = EventNotFound

\* The number of stored events with the id.
EventsWithId(id) == Cardinality({ i \in DOMAIN events : events[i].id = id })

\* C15: every stored Task, Guest, Vendor and Expense has an eventId that is
\* the id of exactly one stored event.
C15_ChildrenHaveEvent ==
    \A arr \in {tasks, guests, vendors, expenses} :
        \A k \in DOMAIN arr : EventsWithId(arr[k].eventId) = 1

\* C19: a step that takes an event out of the store takes out that one event
\* record and nothing else: the other events, and every Task, Guest, Vendor
\* and Expense, those of the deleted event included, stay as they are.
C19_NoCascade ==
    [][ \A id \in Ids :
          (EventExists(id) /\ ~(EventExists(id))')
              => /\ events' = Splice(events, FindIndex(events, id))
                 /\ tasks' = tasks /\ guests' = guests
                 /\ vendors' = vendors /\ expenses' = expenses ]_vars

\* C19 witness: the seed event has been deleted and its task, guest, vendor
\* and expense are still stored, beside an event created by a request.
C19_Witness ==
    /\ 1 \in deleted["events"]
    /\ \E i \in DOMAIN events : events[i].id > 1
    /\ \A arr \in {tasks, guests, vendors, expenses} :
           \E k \in DOMAIN arr : arr[k].id = 1 /\ arr[k].eventId = 1

SummaryFields == {"totalBudget", "paidAmount", "pendingAmount"}

\* C16 as claimed: for a caller with access, the answer of the expense list
\* and the answer of the read-one of every stored expense of the event both
\* carry a budget summary with totalBudget, paidAmount and pendingAmount.
C16_BothCarrySummary ==
    \A i \in DOMAIN events : \A userId \in Users :
        Authorized(events[i], userId) =>
            LET list == GetExpenses(userId, events[i].id).body
            IN  /\ "budgetSummary" \in DOMAIN list
                /\ DOMAIN list.budgetSummary = SummaryFields
                /\ \A k \in DOMAIN expenses :
                       expenses[k].eventId = events[i].id =>
                           LET one == GetExpense(userId, events[i].id, expenses[k].id).body
                           IN  "budgetSummary" \in DOMAIN one
                                   \/ SummaryFields \subseteq DOMAIN one

\* C16 as amended: for a caller with access, the answer of the expense list
\* carries the expenses of the event and the budget summary the summary
\* route answers for it (totalBudget, paidAmount, pendingAmount); the answer
\* of the read-one carries the id, name, category, amount and isPaid of the
\* expense and no budget summary.
C16_ListCarriesSummary ==
    \A i \in DOMAIN events : \A userId \in Users :
        Authorized(events[i], userId) =>
            LET list == GetExpenses(userId, events[i].id).body
                summary == GetBudgetSummary(userId, events[i].id).body
                own == ExpensesOf(events[i].id)
            IN  /\ DOMAIN list = {"expenses", "budgetSummary"}
                /\ DOMAIN list.budgetSummary = SummaryFields
                /\ \A f \in SummaryFields : list.budgetSummary[f] = summary[f]
                /\ list.budgetSummary.totalBudget = SumInOrder([k \in DOMAIN own |-> own[k].amount],
                                                               [k \in DOMAIN own |-> k])
                /\ Len(list.expenses) = Len(own)
                /\ \A k \in DOMAIN own :
                       LET one == GetExpense(userId, events[i].id, own[k].id)
                       IN  /\ one.status = 200
                           /\ DOMAIN one.body = {"id", "name", "category", "amount", "isPaid"}
                           /\ one.body = list.expenses[k]

\* C16 witness: the host of an event with three stored expenses, two of them
\* created by requests, gets a list of three with a total that is not zero.
C16_Witness ==
    \E i \in DOMAIN events :
        LET list == GetExpenses(events[i].hostId, events[i].id)
        IN  /\ list.status = 200
            /\ Len(list.body.expenses) = 3
            /\ list.body.budgetSummary.totalBudget # Zero
            /\ list.body.budgetSummary.pendingAmount # Zero

Internal == {"eventId", "createdAt"}

\* The bodies of the successful creates, read-ones and updates of guests,
\* vendors and expenses that a caller can get under an event.
ViewsOf(userId, eventId) ==
    LET Ok(results) == { r.body : r \in { x \in results : x.status \in {200, 201} } }
        Short(res) == [status |-> res.status, body |-> res.body]
    IN  Ok({Short(PostGuest(userId, eventId, b)) : b \in AnyGuestBodies})
        \cup Ok({Short(PostVendor(userId, eventId, b)) : b \in AnyVendorBodies})
        \cup Ok({Short(PostExpense(userId, eventId, b)) : b \in AnyExpenseBodies})
        \cup UNION { Ok({GetGuest(userId, eventId, id), GetVendor(userId, eventId, id),
                         GetExpense(userId, eventId, id)}) : id \in Ids }
        \cup UNION { Ok({Short(PutGuest(userId, eventId, id, u)) : u \in AnyGuestUpdates})
                         : id \in Ids }
        \cup UNION { Ok({Short(PutVendor(userId, eventId, id, u)) : u \in AnyVendorUpdates})
                         : id \in Ids }
        \cup UNION { Ok({Short(PutExpense(userId, eventId, id, u)) : u \in AnyExpenseUpdates})
                         : id \in Ids }

\* In a step, every record of the collection that stays keeps its eventId
\* and createdAt, and a record that comes in has the time of the request and
\* the id of a stored event.
KeepsInternal(arr, arrNext, now) ==
    \A k \in DOMAIN arrNext :
        IF \E j \in DOMAIN arr : arr[j].id = arrNext[k].id
        THEN \A j \in DOMAIN arr :
                 arr[j].id = arrNext[k].id
                     => /\ arrNext[k].eventId = arr[j].eventId
                        /\ arrNext[k].createdAt = arr[j].createdAt
        ELSE arrNext[k].createdAt = now /\ EventExists(arrNext[k].eventId)

\* C17: no successful create, read-one or update answer for a Guest, Vendor
\* or Expense has an eventId or a createdAt, every stored Guest, Vendor and
\* Expense has both, and no step changes either of them in a stored record.
C17_InternalFieldsKept ==
    /\ [](\A userId \in Users, eventId \in Ids :
              /\ \A view \in ViewsOf(userId, eventId) : DOMAIN view \cap Internal = {}
              /\ \A arr \in {guests, vendors, expenses} :
                     \A k \in DOMAIN arr : Internal \subseteq DOMAIN arr[k])
    /\ [][ /\ KeepsInternal(guests, guests', nextId - 1)
           /\ KeepsInternal(vendors, vendors', nextId - 1)
           /\ KeepsInternal(expenses, expenses', nextId - 1) ]_vars

\* C17 witness: a vendor created by a request after the start has been
\* updated, its record still has its event and its creation time, and the
\* read-one of it shows neither.
C17_Witness ==
    \E v \in DOMAIN vendors :
        /\ vendors[v].id > 1
        /\ vendors[v].companyName = "Beats Inc"
        /\ vendors[v].createdAt > 0
        /\ EventExists(vendors[v].eventId)
        /\ LET res == GetVendor(FindEvent(vendors[v].eventId).hostId,
                                vendors[v].eventId, vendors[v].id)
           IN  res.status = 200 /\ DOMAIN res.body \cap Internal = {}

\* round(100 * completed / total) for the tasks stored under the event, halves
\* rounded up, and 0 for an event without tasks.
CompletedShare(eventId) ==
    LET own == { k \in DOMAIN tasks : tasks[k].eventId = eventId }
        done == { k \in own : tasks[k].status = "Completed" }
    IN  IF own = {} THEN 0
        ELSE (200 * Cardinality(done) + Cardinality(own)) \div (2 * Cardinality(own))

\* C18: whatever Math.random() draws, the progress of every event in the
\* answer of GET /events is round(100 * completed tasks / tasks) of that
\* event, and 0 for an event without tasks.
C18_ProgressFromTasks ==
    \A userId \in Users : \A random \in RandomDraws :
        LET list == GetEvents(userId, random).body
        IN  \A k \in DOMAIN list : list[k].progress = CompletedShare(list[k].id)

\* The ids stored in a collection.
IdsIn(arr) == { arr[k].id : k \in DOMAIN arr }

\* C20: a record leaves its collection only in a step that is the successful
\* delete of its id by the host (Event) or by the host or a collaborator of
\* its event (Task, Guest, Vendor, Expense); and as long as a record has not
\* left, the host of its event, who could read it before a step, can read it
\* after the step.
C20_StoredUntilDeleted ==
    [][ /\ \A e \in DOMAIN events :
               events[e].id \notin IdsIn(events)'
                   => LET res == DeleteEvent(events[e].hostId, events[e].id)
                      IN  res.status = 204 /\ events' = res.events
        /\ \A k \in DOMAIN tasks : \A userId \in Users :
               LET r == tasks[k]
               IN  /\ r.id \notin IdsIn(tasks)'
                       => /\ EventExists(r.eventId)
                          /\ \E u \in Users :
                                 /\ Authorized(FindEvent(r.eventId), u)
                                 /\ DeleteTask(u, r.eventId, r.id).status = 204
                                 /\ tasks' = DeleteTask(u, r.eventId, r.id).tasks
                   /\ (r.id \in IdsIn(tasks)' /\ GetTask(userId, r.eventId, r.id).status = 200)
                       => (GetTask(userId, r.eventId, r.id).status = 200)'
        /\ \A k \in DOMAIN guests : \A userId \in Users :
               LET r == guests[k]
               IN  /\ r.id \notin IdsIn(guests)'
                       => /\ EventExists(r.eventId)
                          /\ \E u \in Users :
                                 /\ Authorized(FindEvent(r.eventId), u)
                                 /\ DeleteGuest(u, r.eventId, r.id).status = 204
                                 /\ guests' = DeleteGuest(u, r.eventId, r.id).guests
                   /\ (r.id \in IdsIn(guests)' /\ GetGuest(userId, r.eventId, r.id).status = 200)
                       => (GetGuest(userId, r.eventId, r.id).status = 200)'
        /\ \A k \in DOMAIN vendors : \A userId \in Users :
               LET r == vendors[k]
               IN  /\ r.id \notin IdsIn(vendors)'
                       => /\ EventExists(r.eventId)
                          /\ \E u \in Users :
                                 /\ Authorized(FindEvent(r.eventId), u)
                                 /\ DeleteVendor(u, r.eventId, r.id).status = 204
                                 /\ vendors' = DeleteVendor(u, r.eventId, r.id).vendors
                   /\ (r.id \in IdsIn(vendors)'
                           /\ GetVendor(userId, r.eventId, r.id).status = 200)
                       => (GetVendor(userId, r.eventId, r.id).status = 200)'
        /\ \A k \in DOMAIN expenses : \A userId \in Users :
               LET r == expenses[k]
               IN  /\ r.id \notin IdsIn(expenses)'
                       => /\ EventExists(r.eventId)
                          /\ \E u \in Users :
                                 /\ Authorized(FindEvent(r.eventId), u)
                                 /\ DeleteExpense(u, r.eventId, r.id).status = 204
                                 /\ expenses' = DeleteExpense(u, r.eventId, r.id).expenses
                   /\ (r.id \in IdsIn(expenses)'
                           /\ GetExpense(userId, r.eventId, r.id).status = 200)
                       => (GetExpense(userId, r.eventId, r.id).status = 200)'
      ]_vars

(***************************************************************************)
(* Concurrent updates.  The PUT handlers are function bodies without an    *)
(* await, so the event loop runs each of them to completion: requests that *)
(* are in flight together are served one after the other, in any order.   *)
(* `served` is the log of the PUT requests served so far.                  *)
(***************************************************************************)
MaxConcurrent == 2

ConcurrentEventUpdates ==
    EventUpdates \cup { [name |-> "Gala", date |-> "2024-08-01"], [description |-> "Moved"] }

ConcurrentTaskUpdates ==
    TaskUpdates \cup { [status |-> "On Hold", name |-> "Call Venue"] }

ConcurrentGuestUpdates ==
    GuestUpdates \cup { [rsvpStatus |-> "Declined"] }

ConcurrentVendorUpdates ==
    VendorUpdates \cup { [email |-> "dj@example.com", companyName |-> "Elegant"] }

ConcurrentExpenseUpdates ==
    ExpenseUpdates \cup { [amount |-> "0.2", isPaid |-> "false"] }

Logged(kind, userId, eventId, id, updates, status) ==
    Append(served, [kind |-> kind, userId |-> userId, eventId |-> eventId, id |-> id,
                    updates |-> updates, status |-> status])

ServePutEvent ==
    \E userId \in Users, eventId \in Ids, updates \in ConcurrentEventUpdates :
        LET res == PutEvent(userId, eventId, updates)
        IN  /\ Len(served) < MaxConcurrent
            /\ events' = res.events
            /\ served' = Logged("events", userId, eventId, eventId, updates, res.status)
            /\ UNCHANGED <<users, tasks, guests, vendors, expenses, nextId, deleted>>

ServePutTask ==
    \E userId \in Users, eventId \in Ids, id \in Ids, updates \in ConcurrentTaskUpdates :
        LET res == PutTask(userId, eventId, id, updates)
        IN  /\ Len(served) < MaxConcurrent
            /\ tasks' = res.tasks
            /\ served' = Logged("tasks", userId, eventId, id, updates, res.status)
            /\ UNCHANGED <<users, events, guests, vendors, expenses, nextId, deleted>>

ServePutGuest ==
    \E userId \in Users, eventId \in Ids, id \in Ids, updates \in ConcurrentGuestUpdates :
        LET res == PutGuest(userId, eventId, id, updates)
        IN  /\ Len(served) < MaxConcurrent
            /\ guests' = res.guests
            /\ served' = Logged("guests", userId, eventId, id, updates, res.status)
            /\ UNCHANGED <<users, events, tasks, vendors, expenses, nextId, deleted>>

ServePutVendor ==
    \E userId \in Users, eventId \in Ids, id \in Ids, updates \in ConcurrentVendorUpdates :
        LET res == PutVendor(userId, eventId, id, updates)
        IN  /\ Len(served) < MaxConcurrent
            /\ vendors' = res.vendors
            /\ served' = Logged("vendors", userId, eventId, id, updates, res.status)
            /\ UNCHANGED <<users, events, tasks, guests, expenses, nextId, deleted>>

ServePutExpense ==
    \E userId \in Users, eventId \in Ids, id \in Ids, updates \in ConcurrentExpenseUpdates :
        LET res == PutExpense(userId, eventId, id, updates)
        IN  /\ Len(served) < MaxConcurrent
            /\ expenses' = res.expenses
            /\ served' = Logged("expenses", userId, eventId, id, updates, res.status)
            /\ UNCHANGED <<users, events, tasks, guests, vendors, nextId, deleted>>

NextConcurrent ==
    \/ ServePutEvent
    \/ ServePutTask
    \/ ServePutGuest
    \/ ServePutVendor
    \/ ServePutExpense

SpecConcurrent == Init /\ [][NextConcurrent]_vars

Collection(kind) ==
    CASE kind = "events" -> events
      [] kind = "tasks" -> tasks
      [] kind = "guests" -> guests
      [] kind = "vendors" -> vendors
      [] kind = "expenses" -> expenses

SeedOf(kind) ==
    CASE kind = "events" -> SeedEvents
      [] kind = "tasks" -> SeedTasks
      [] kind = "guests" -> SeedGuests
      [] kind = "vendors" -> SeedVendors
      [] kind = "expenses" -> SeedExpenses

\* The fields the PUT of each kind of record accepts.
Updatable(kind) ==
    CASE kind = "events" -> {"name", "type", "date", "description"}
      [] kind = "tasks" -> {"name", "description", "assigneeId", "dueDate", "status"}
      [] kind = "guests" -> {"rsvpStatus", "plusOne", "notes"}
      [] kind = "vendors" -> {"companyName", "contactName", "email", "serviceProvided"}
      [] kind = "expenses" -> {"name", "category", "amount", "isPaid"}

\* The value a record holds for a field after a body supplied v for it.
SuppliedValue(kind, field, v) ==
    CASE field \in {"date", "dueDate"} -> NewDate(v)
      [] field = "email" -> NormalizeEmail(v)
      [] field = "amount" -> ParseFloat(v)
      [] field = "isPaid" -> ToBoolean(v)
      [] OTHER -> v

\* The positions in the log of the successful updates of the record that
\* supplied the field.
Writes(kind, id, field) ==
    { n \in DOMAIN served :
        /\ served[n].kind = kind /\ served[n].id = id /\ served[n].status = 200
        /\ field \in DOMAIN served[n].updates }

Latest(S) == CHOOSE n \in S : \A m \in S : m <= n

\* C21: in whatever order updates that are in flight together are served,
\* every updatable field of every stored record holds the value of the last
\* served successful update of the record that supplied the field, and the
\* value it had before when none supplied it: an update of other fields
\* overwrites nothing.
C21_LastWriteWins ==
    \A kind \in Kinds : \A k \in DOMAIN Collection(kind) :
        LET rec == Collection(kind)[k]
            before == SeedOf(kind)[k]
        IN  \A field \in Updatable(kind) :
                LET writes == Writes(kind, rec.id, field)
                IN  rec[field] = IF writes = {} THEN before[field]
                                 ELSE SuppliedValue(kind, field,
                                                    served[Latest(writes)].updates[field])

\* C21 witness: two updates of task 1 by its host were served, both supplied
\* a name and each supplied fields the other did not; the task has the name
\* of the second, the due date of the first and the status of the second.
C21_Witness ==
    /\ Len(served) = 2
    /\ \A n \in {1, 2} :
           /\ served[n].kind = "tasks" /\ served[n].id = 1 /\ served[n].status = 200
           /\ served[n].userId = 1
    /\ "dueDate" \in DOMAIN served[1].updates /\ "status" \in DOMAIN served[2].updates
    /\ "name" \in DOMAIN served[1].updates /\ "name" \in DOMAIN served[2].updates
    /\ tasks[1].name = served[2].updates.name
    /\ tasks[1].name # served[1].updates.name
    /\ tasks[1].dueDate = NewDate(served[1].updates.dueDate)
    /\ tasks[1].status = served[2].updates.status

(***************************************************************************)
(* The effect of one handler operation on the collections.                 *)
(***************************************************************************)
\* The status a mutating handler answers and the collection it leaves.
Effect(kind, res) == [kind |-> kind, status |-> res.status, after |-> res[kind]]

\* The effects of every create, update and delete that can be requested in
\* the current state.
Effects ==
    {Effect("events", PostEvent(u, b)) : u \in Users, b \in EventBodies}
        \cup {Effect("events", PutEvent(u, e, b)) :
                  u \in Users, e \in Ids, b \in ConcurrentEventUpdates}
        \cup {Effect("events", DeleteEvent(u, e)) : u \in Users, e \in Ids}
        \cup {Effect("tasks", PostTask(u, e, b)) : u \in Users, e \in Ids, b \in TaskBodies}
        \cup {Effect("tasks", PutTask(u, e, i, b)) :
                  u \in Users, e \in Ids, i \in Ids, b \in ConcurrentTaskUpdates}
        \cup {Effect("tasks", DeleteTask(u, e, i)) : u \in Users, e \in Ids, i \in Ids}
        \cup {Effect("guests", PostGuest(u, e, b)) : u \in Users, e \in Ids, b \in GuestBodies}
        \cup {Effect("guests", PutGuest(u, e, i, b)) :
                  u \in Users, e \in Ids, i \in Ids, b \in ConcurrentGuestUpdates}
        \cup {Effect("guests", DeleteGuest(u, e, i)) : u \in Users, e \in Ids, i \in Ids}
        \cup {Effect("vendors", PostVendor(u, e, b)) :
                  u \in Users, e \in Ids, b \in VendorBodies}
        \cup {Effect("vendors", PutVendor(u, e, i, b)) :
                  u \in Users, e \in Ids, i \in Ids, b \in ConcurrentVendorUpdates}
        \cup {Effect("vendors", DeleteVendor(u, e, i)) : u \in Users, e \in Ids, i \in Ids}
        \cup {Effect("expenses", PostExpense(u, e, b)) :
                  u \in Users, e \in Ids, b \in ExpenseBodies}
        \cup {Effect("expenses", PutExpense(u, e, i, b)) :
                  u \in Users, e \in Ids, i \in Ids, b \in ConcurrentExpenseUpdates}
        \cup {Effect("expenses", DeleteExpense(u, e, i)) : u \in Users, e \in Ids, i \in Ids}

\* new is old with at most one record inserted, changed or removed.
AtMostOneRecord(old, new) ==
    \/ new = old
    \/ /\ Len(new) = Len(old) + 1
       /\ \E i \in DOMAIN new :
              old = [j \in 1..Len(old) |-> IF j < i THEN new[j] ELSE new[j + 1]]
    \/ /\ Len(new) = Len(old)
       /\ \E i \in DOMAIN old : \A j \in DOMAIN old \ {i} : new[j] = old[j]
    \/ /\ Len(new) + 1 = Len(old)
       /\ \E i \in DOMAIN old :
              new = [j \in 1..Len(new) |-> IF j < i THEN old[j] ELSE old[j + 1]]

\* C22 (failed operations): a create, update or delete that is answered with
\* an error status (400, 403, 404) leaves the collection it works on as it
\* was, and one that succeeds leaves it with at most one record inserted,
\* changed or removed.
C22_FailedLeavesStore ==
    \A eff \in Effects :
        /\ eff.status >= 400 => eff.after = Collection(eff.kind)
        /\ eff.status < 400 => AtMostOneRecord(Collection(eff.kind), eff.after)

\* C22 (steps): every handler operation changes at most one of the six
\* collections (users and the five collections of Kinds), and that one by at
\* most one record.
C22_OneRecordStep ==
    /\ users' # users => \A kind \in Kinds : (Collection(kind))' = Collection(kind)
    /\ \A kind \in Kinds :
           (Collection(kind))' # Collection(kind)
               => /\ users' = users
                  /\ \A other \in Kinds \ {kind} : (Collection(other))' = Collection(other)
                  /\ AtMostOneRecord(Collection(kind), (Collection(kind))')

\* C22: an operation answered NotFound, Forbidden or Conflict leaves all the
\* collections as they were, and a successful one inserts, changes or removes
\* at most one record of one collection.
C22_NoPartialFailure == []C22_FailedLeavesStore /\ [][C22_OneRecordStep]_vars

\* C22 witness: a second guest with the email of a stored guest of the event
\* is refused (400) to the host while a vendor created by a request is stored.
C22_Witness ==
    /\ Len(vendors) = 2
    /\ \E b \in GuestBodies :
           /\ PostGuest(1, 1, b).status = 400
           /\ PostGuest(1, 1, b).guests = guests
    /\ \E eff \in Effects : eff.status = 404
    /\ \E eff \in Effects : eff.status = 403
    /\ \E eff \in Effects : eff.status = 204 /\ Len(eff.after) + 1 = Len(Collection(eff.kind))

\* C23: in each collection the ids of the stored records are pairwise
\* distinct, the seed records with id 1 included, and no stored record has an
\* id that a successful delete removed from the collection before.
C23_IdsUnique ==
    \A kind \in Kinds :
        LET coll == Collection(kind)
        IN  /\ \A i, j \in DOMAIN coll : i # j => coll[i].id # coll[j].id
            /\ deleted[kind] \cap IdsIn(coll) = {}

\* C23 witness: the seed event and an event created after another created
\* event was deleted are stored together.
C23_Witness ==
    /\ Len(events) = 2 /\ IdsIn(events) = {1, 3}
    /\ deleted["events"] = {2}

(***************************************************************************)
(* Updates and the fields they may not touch.                              *)
(***************************************************************************)
\* Bodies that also carry the properties no update should assign.
Forged(updates) ==
    { u @@ [id |-> 3, eventId |-> 2, createdAt |-> 9] : u \in updates }

\* The collection each update that can be requested in the current state
\* leaves, bodies that carry id, eventId and createdAt included.
UpdateEffects ==
    {Effect("events", PutEvent(u, e, b)) :
         u \in Users, e \in Ids, b \in EventUpdates \cup Forged(EventUpdates)}
        \cup {Effect("tasks", PutTask(u, e, i, b)) :
                  u \in Users, e \in Ids, i \in Ids, b \in TaskUpdates \cup Forged(TaskUpdates)}
        \cup {Effect("guests", PutGuest(u, e, i, b)) :
                  u \in Users, e \in Ids, i \in Ids,
                  b \in GuestUpdates \cup Forged(GuestUpdates)}
        \cup {Effect("vendors", PutVendor(u, e, i, b)) :
                  u \in Users, e \in Ids, i \in Ids,
                  b \in VendorUpdates \cup Forged(VendorUpdates)}
        \cup {Effect("expenses", PutExpense(u, e, i, b)) :
                  u \in Users, e \in Ids, i \in Ids,
                  b \in ExpenseUpdates \cup Forged(ExpenseUpdates)}

\* The fields of a record of the kind that are set at creation for good.
Immutable(kind) == IF kind = "events" THEN {"id", "createdAt"}
                   ELSE {"id", "createdAt", "eventId"}

\* new holds the records of old, in order, with their immutable fields.
KeepsImmutable(kind, old, new) ==
    /\ Len(new) = Len(old)
    /\ \A k \in DOMAIN old : \A field \in Immutable(kind) : new[k][field] = old[k][field]

\* C24 (requests): whatever the body of an update carries, the collection it
\* leaves holds the same records with the id, createdAt and (for a task,
\* guest, vendor or expense) eventId they had.
C24_UpdateKeepsImmutable ==
    \A eff \in UpdateEffects : KeepsImmutable(eff.kind, Collection(eff.kind), eff.after)

\* C24 (steps): a record that is stored before and after a step, found by
\* its id, has the createdAt and eventId it had.
C24_StepKeepsImmutable ==
    \A kind \in Kinds : \A k \in DOMAIN Collection(kind) :
        \A n \in DOMAIN (Collection(kind))' :
            (Collection(kind))'[n].id = Collection(kind)[k].id
                => \A field \in Immutable(kind) :
                       (Collection(kind))'[n][field] = Collection(kind)[k][field]

\* C24: no update changes the id or createdAt of a record, nor the eventId
\* of a task, guest, vendor or expense.
C24_ImmutableFields == []C24_UpdateKeepsImmutable /\ [][C24_StepKeepsImmutable]_vars

\* C24 witness: the host's update of expense 1 with a body that carries a
\* name and another id, eventId and createdAt is answered 200 and stores the
\* name, and an event created by a request has been updated.
C24_Witness ==
    /\ \E b \in Forged(ExpenseUpdates) :
           LET res == PutExpense(1, 1, 1, b)
           IN  /\ res.status = 200 /\ b.id # 1 /\ b.eventId # 1
               /\ "name" \in DOMAIN b /\ res.expenses[1].name = b.name
               /\ res.expenses[1].name # expenses[1].name
    /\ \E k \in DOMAIN events : events[k].id # 1 /\ events[k].name = "Launch"

(***************************************************************************)
(* Status values and the defaults of a create.                             *)
(***************************************************************************)
\* Request bodies as they arrive, before the validators: the bodies of the
\* exploration and bodies with a status, an rsvpStatus or a plusOne the
\* validators refuse.
RawTaskBodies ==
    TaskBodies \cup { [name |-> "Send invites", status |-> "Done"],
                      [name |-> "Send invites", status |-> ""],
                      [name |-> "Send invites", status |-> "On Hold"] }

RawTaskUpdates ==
    ConcurrentTaskUpdates \cup { [status |-> "Done"], [status |-> Null],
                                 [status |-> "In Progress"] }

RawGuestBodies ==
    GuestBodies \cup { [name |-> "Bob", email |-> "bob@example.com", plusOne |-> "-1"],
                       [name |-> "Bob", email |-> "bob@example.com", plusOne |-> "1.5"],
                       [name |-> "Bob", email |-> "bob@example.com", plusOne |-> "3",
                        rsvpStatus |-> "Confirmed"] }

RawGuestUpdates ==
    ConcurrentGuestUpdates \cup { [rsvpStatus |-> "Yes"], [plusOne |-> "3"],
                                  [rsvpStatus |-> "Maybe", plusOne |-> "3"] }

\* The value of a plusOne literal is not negative.
NonNegative(lit) == lit \notin {"-1"}

StatusesValid(allTasks, allGuests) ==
    /\ \A k \in DOMAIN allTasks : allTasks[k].status \in TaskStatuses
    /\ \A k \in DOMAIN allGuests : allGuests[k].rsvpStatus \in RsvpStatuses

\* C25: every stored task has a status of To-Do, In Progress, Completed, On
\* Hold and every stored guest an rsvpStatus of Pending, Confirmed, Declined,
\* Maybe, and every create and update that can be requested, whatever status
\* its body carries, leaves them so; a task created without a status has
\* status To-Do; a created guest has rsvpStatus Pending and a plusOne that is
\* not negative, 0 when the body has none.
C25_StatusDomains ==
    /\ StatusesValid(tasks, guests)
    /\ \A u \in Users, e \in Ids :
           /\ \A b \in RawTaskBodies :
                  LET res == PostTask(u, e, b)
                  IN  /\ StatusesValid(res.tasks, guests)
                      /\ (res.status = 201 /\ "status" \notin DOMAIN b)
                             => res.tasks[Len(res.tasks)].status = "To-Do"
           /\ \A b \in RawGuestBodies :
                  LET res == PostGuest(u, e, b)
                      new == res.guests[Len(res.guests)]
                  IN  /\ StatusesValid(tasks, res.guests)
                      /\ res.status = 201
                             => /\ new.rsvpStatus = "Pending"
                                /\ NonNegative(new.plusOne)
                                /\ "plusOne" \notin DOMAIN b => new.plusOne = "0"
           /\ \A i \in Ids :
                  /\ \A b \in RawTaskUpdates :
                         StatusesValid(PutTask(u, e, i, b).tasks, guests)
                  /\ \A b \in RawGuestUpdates :
                         StatusesValid(tasks, PutGuest(u, e, i, b).guests)

\* C25 witness: a task created without a status is stored and has been
\* updated to Completed since; the host's guest without a plusOne is created
\* Pending with plusOne 0; and the host's requests with a status or a plusOne
\* outside the domain are refused.
C25_Witness ==
    /\ \E k \in DOMAIN tasks :
           tasks[k].id # 1 /\ tasks[k].name = "Send invites" /\ tasks[k].status = "Completed"
    /\ LET res == PostGuest(1, 1, [name |-> "Bob", email |-> "bob@example.com"])
       IN  /\ res.status = 201
           /\ res.guests[Len(res.guests)].plusOne = "0"
           /\ res.guests[Len(res.guests)].rsvpStatus = "Pending"
    /\ PutTask(1, 1, 1, [status |-> "Done"]).status = 400
    /\ PostGuest(1, 1, [name |-> "Bob", email |-> "bob@example.com",
                        plusOne |-> "-1"]).status = 400

(***************************************************************************)
(* The fields a guest update stores.                                       *)
(***************************************************************************)
\* A successful guest update stores every field of `fields` its body
\* supplies.
GuestUpdateStores(fields) ==
    \A u \in Users, e \in Ids, i \in Ids, b \in AnyGuestUpdates :
        LET res == PutGuest(u, e, i, b)
            k == FindChildIndex(guests, i, e)
        IN  res.status = 200
                => \A field \in fields \cap DOMAIN b : res.guests[k][field] = b[field]

\* C26 as claimed: after a successful guest update the stored guest holds
\* the value the body supplied for each of name, plusOne, notes, rsvpStatus.
C26_GuestFieldsMutable == GuestUpdateStores({"name", "plusOne", "notes", "rsvpStatus"})

\* C26 as amended: after a successful guest update the stored guest holds
\* the value the body supplied for each of plusOne, notes, rsvpStatus, and
\* the name it had before, whether or not the body supplied a name.
C26_RsvpFieldsMutable ==
    /\ GuestUpdateStores({"plusOne", "notes", "rsvpStatus"})
    /\ \A u \in Users, e \in Ids, i \in Ids, b \in AnyGuestUpdates :
           LET res == PutGuest(u, e, i, b)
           IN  \A k \in DOMAIN guests : res.guests[k].name = guests[k].name

\* C26 witness: the seed guest has been updated (Confirmed, plusOne 0, no
\* notes) and has its name, and the host's update that supplies another
\* name, rsvpStatus, plusOne and notes is answered 200.
C26_Witness ==
    /\ guests[1].rsvpStatus = "Confirmed" /\ guests[1].plusOne = "0" /\ guests[1].notes = ""
    /\ guests[1].name = "Jane Smith"
    /\ \E b \in AnyGuestUpdates :
           /\ DOMAIN b = {"name", "plusOne", "notes", "rsvpStatus"}
           /\ b.name # guests[1].name /\ b.plusOne # guests[1].plusOne
           /\ b.notes # guests[1].notes /\ b.rsvpStatus # guests[1].rsvpStatus
           /\ PutGuest(1, 1, 1, b).status = 200

(***************************************************************************)
(* A child addressed under another event than its own.                     *)
(***************************************************************************)
\* The status and the collection left by each read-one, update and delete
\* of the record `id` of the kind, addressed under the event by the caller.
Addressed(kind, userId, eventId, id) ==
    CASE kind = "tasks" ->
             {[status |-> GetTask(userId, eventId, id).status, after |-> tasks],
              [status |-> DeleteTask(userId, eventId, id).status,
               after |-> DeleteTask(userId, eventId, id).tasks]}
                 \cup {[status |-> PutTask(userId, eventId, id, b).status,
                        after |-> PutTask(userId, eventId, id, b).tasks] : b \in TaskUpdates}
      [] kind = "guests" ->
             {[status |-> GetGuest(userId, eventId, id).status, after |-> guests],
              [status |-> DeleteGuest(userId, eventId, id).status,
               after |-> DeleteGuest(userId, eventId, id).guests]}
                 \cup {[status |-> PutGuest(userId, eventId, id, b).status,
                        after |-> PutGuest(userId, eventId, id, b).guests] : b \in GuestUpdates}
      [] kind = "vendors" ->
             {[status |-> GetVendor(userId, eventId, id).status, after |-> vendors],
              [status |-> DeleteVendor(userId, eventId, id).status,
               after |-> DeleteVendor(userId, eventId, id).vendors]}
                 \cup {[status |-> PutVendor(userId, eventId, id, b).status,
                        after |-> PutVendor(userId, eventId, id, b).vendors] :
                           b \in VendorUpdates}
      [] kind = "expenses" ->
             {[status |-> GetExpense(userId, eventId, id).status, after |-> expenses],
              [status |-> DeleteExpense(userId, eventId, id).status,
               after |-> DeleteExpense(userId, eventId, id).expenses]}
                 \cup {[status |-> PutExpense(userId, eventId, id, b).status,
                        after |-> PutExpense(userId, eventId, id, b).expenses] :
                           b \in ExpenseUpdates}

\* C27 as claimed: a read-one, update or delete of a stored task, guest,
\* vendor or expense addressed under another event than the record's own is
\* answered 404 and leaves the collection as it was, whoever calls.
C27_OtherEventNotFound ==
    \A kind \in Kinds \ {"events"} : \A k \in DOMAIN Collection(kind) :
        \A userId \in Users, eventId \in Ids \ {Collection(kind)[k].eventId} :
            \A out \in Addressed(kind, userId, eventId, Collection(kind)[k].id) :
                out.status = 404 /\ out.after = Collection(kind)

\* C27 as amended: such a request is answered 404, or 403 to a caller who is
\* neither host nor collaborator of the stored event it names, and leaves
\* the collection as it was.
C27_OtherEventNoAccess ==
    \A kind \in Kinds \ {"events"} : \A k \in DOMAIN Collection(kind) :
        \A userId \in Users, eventId \in Ids \ {Collection(kind)[k].eventId} :
            \A out \in Addressed(kind, userId, eventId, Collection(kind)[k].id) :
                /\ out.status = IF EventExists(eventId) /\ Unrelated(FindEvent(eventId), userId)
                                THEN 403 ELSE 404
                /\ out.after = Collection(kind)

\* C27 witness: user 1 hosts the seed event and a second event, a vendor
\* created under the second event is stored, and the read-one of that vendor
\* and of the seed vendor under the other event are answered 404 to user 1.
C27_Witness ==
    \E B \in Ids \ {1} :
        /\ EventExists(B) /\ EventExists(1)
        /\ FindEvent(B).hostId = 1 /\ FindEvent(1).hostId = 1
        /\ \E k \in DOMAIN vendors :
               /\ vendors[k].eventId = B
               /\ GetVendor(1, B, vendors[k].id).status = 200
               /\ GetVendor(1, 1, vendors[k].id).status = 404
        /\ GetVendor(1, B, 1).status = 404
        /\ GetVendor(1, 1, 1).status = 200

(***************************************************************************)
(* The children of a deleted event.                                        *)
(***************************************************************************)
\* C28 (requests): under the id of a deleted event every list, create and
\* budget summary, and every read-one, update and delete of every child id,
\* is answered 404 "Event not found" to every caller.
C28_OrphansUnreachable ==
    \A eventId \in deleted["events"] : \A userId \in Users :
        ScopedOutcomes(userId, eventId)
            \cup UNION { ChildOutcomes(userId, eventId, id) : id \in Ids } = {EventNotFound}

\* C28 (steps): a deleted event stays deleted, and every stored child of a
\* deleted event is stored unchanged after every step.
C28_OrphansStay ==
    \A eventId \in deleted["events"] :
        /\ eventId \in (deleted["events"])' /\ ~(EventExists(eventId))'
        /\ \A kind \in Kinds \ {"events"} : \A k \in DOMAIN Collection(kind) :
               Collection(kind)[k].eventId = eventId
                   => \E n \in DOMAIN (Collection(kind))' :
                          (Collection(kind))'[n] = Collection(kind)[k]

\* C28: once an event has been deleted, every request on its former tasks,
\* guests, vendors and expenses is answered NotFound to every caller, the
\* former host included, and the orphaned records stay stored as they are.
C28_OrphansForever == []C28_OrphansUnreachable /\ [][C28_OrphansStay]_vars

\* C28 witness: the seed event has been deleted by its host, its task,
\* guest, vendor and expense are stored, requests have been served since (an
\* event was created), and the former host's read of the task is answered 404.
C28_Witness ==
    /\ 1 \in deleted["events"] /\ ~EventExists(1)
    /\ nextId > 2
    /\ \A kind \in Kinds \ {"events"} :
           \E k \in DOMAIN Collection(kind) : Collection(kind)[k].eventId = 1
    /\ Outcome(GetTask(1, 1, 1)) = EventNotFound
    /\ Outcome(DeleteExpense(1, 1, 1)) = EventNotFound

(***************************************************************************)
(* The frame of an update.                                                 *)
(***************************************************************************)
\* Event updates whose body also names the host, the collaborators and the
\* vendors.
FrameEventUpdates ==
    ConcurrentEventUpdates
        \cup { [description |-> "Moved", hostId |-> 2, collaborators |-> <<2>>,
                vendors |-> <<1>>] }

\* Every field of every record of old that the body does not supply has its
\* value in new.
AbsentKept(old, new, b) ==
    /\ Len(new) = Len(old)
    /\ \A k \in DOMAIN old : \A field \in DOMAIN old[k] \ DOMAIN b :
           new[k][field] = old[k][field]

\* C29: after an update of an event, task, guest, vendor or expense that is
\* answered 200, every field that the body does not supply has the value
\* that was stored; and an event update leaves hostId, collaborators and
\* vendors as stored, also when the body supplies them.
C29_UpdateFrame ==
    \A u \in Users, e \in Ids :
        /\ \A b \in FrameEventUpdates :
               LET res == PutEvent(u, e, b)
               IN  res.status = 200
                       => /\ AbsentKept(events, res.events, b)
                          /\ \A k \in DOMAIN events :
                                 \A field \in {"hostId", "collaborators", "vendors"} :
                                     res.events[k][field] = events[k][field]
        /\ \A i \in Ids :
               /\ \A b \in ConcurrentTaskUpdates :
                      LET res == PutTask(u, e, i, b)
                      IN  res.status = 200 => AbsentKept(tasks, res.tasks, b)
               /\ \A b \in ConcurrentGuestUpdates :
                      LET res == PutGuest(u, e, i, b)
                      IN  res.status = 200 => AbsentKept(guests, res.guests, b)
               /\ \A b \in ConcurrentVendorUpdates :
                      LET res == PutVendor(u, e, i, b)
                      IN  res.status = 200 => AbsentKept(vendors, res.vendors, b)
               /\ \A b \in ConcurrentExpenseUpdates :
                      LET res == PutExpense(u, e, i, b)
                      IN  res.status = 200 => AbsentKept(expenses, res.expenses, b)

\* C29 witness: an event created by user 3 has been updated by a body that
\* names user 2 as host and collaborator and still has host 3 and no
\* collaborators, and the host's update of the amount of the seed expense is
\* answered 200 and changes the amount.
C29_Witness ==
    /\ \E k \in DOMAIN events :
           /\ events[k].id # 1 /\ events[k].name = "Launch"
           /\ events[k].hostId = 3 /\ events[k].collaborators = <<>>
    /\ \E b \in ConcurrentExpenseUpdates :
           /\ DOMAIN b = {"amount"}
           /\ PutExpense(1, 1, 1, b).status = 200
           /\ PutExpense(1, 1, 1, b).expenses[1].amount # expenses[1].amount

\* C30: for every stored event and every caller who is its host or a
\* collaborator, the expense list and the budget summary are both answered
\* 200, and totalBudget, paidAmount and pendingAmount of the budgetSummary of
\* the list equal those of the budget summary.
C30_SummariesAgree ==
    \A i \in DOMAIN events : \A userId \in Users :
        Authorized(events[i], userId) =>
            LET list == GetExpenses(userId, events[i].id)
                summary == GetBudgetSummary(userId, events[i].id)
            IN  /\ list.status = 200 /\ summary.status = 200
                /\ \A field \in SummaryFields :
                       list.body.budgetSummary[field] = summary.body[field]

\* C30 witness: the seed event has a paid and an unpaid expense whose amounts
\* are not both whole numbers, and the pendingAmount the list answers to the
\* host is not the sum of the unpaid amounts.
C30_Witness ==
    /\ EventExists(1)
    /\ Paid(OfEvent(expenses, 1)) # <<>> /\ Unpaid(OfEvent(expenses, 1)) # <<>>
    /\ GetExpenses(1, 1).status = 200
    /\ GetExpenses(1, 1).body.budgetSummary.pendingAmount
           # SumAmounts(Unpaid(OfEvent(expenses, 1)))

====
